---- MODULE Spec2Model ----
(***************************************************************************)
(* Model of the asynchronous OCR service of ImageToPDF_App: the upload     *)
(* route, the background worker, the status route, the task registry, the  *)
(* OCR pipeline and the filename helpers (app.py, utils.py, security.py).  *)
(*                                                                         *)
(* Strings that the code slices, compares or concatenates (file names,     *)
(* task ids) are sequences of one-character strings.  Text produced by the *)
(* OCR engine is a sequence of tokens (words, punctuation runs, line       *)
(* breaks): joining words with single blanks is one-to-one on such         *)
(* sequences, so a joined string is represented by its word sequence.      *)
(* Paths are kept relative to the upload folder; the model follows POSIX   *)
(* path rules (os.sep = "/", no os.altsep).                                *)
(***************************************************************************)
EXTENDS Integers, Sequences, FiniteSets, TLC

(***************************************************************************)
(* Bounds of the model.                                                    *)
(***************************************************************************)
MaxTasks == 2        \* uploads that get as far as generating a task id
MaxWorkers == 1      \* tasks under way at once (upload accepted, worker not ended)
NumPollers == 2      \* concurrent /status requests
MaxPages == 2        \* pages of a document handed to perform_ocr directly
MaxUploadPages == 1  \* pages of an uploaded container document
NumSweepers == 2     \* requests whose before_request hook runs at the same time
MaxTicks == 1        \* advances of the wall clock
MaxComponents == 3   \* path components of a name asked of is_safe_to_serve
MaxNameLen == 130    \* characters of the base of a name to be secured

(***************************************************************************)
(* Program constants.                                                      *)
(***************************************************************************)
MAX_FILE_SIZE == 5 * 1024 * 1024
CLEANUP_AGE_SECONDS == 3600
MAX_FILENAME_LENGTH == 128
TaskIdLen == 32      \* os.urandom(16).hex()
PreviewIdLen == 16   \* os.urandom(8).hex()

(***************************************************************************)
(* Characters and strings.                                                 *)
(***************************************************************************)
UpperChars == <<"A","B","C","D","E","F","G","H","I","J","K","L","M",
                "N","O","P","Q","R","S","T","U","V","W","X","Y","Z">>
LowerChars == <<"a","b","c","d","e","f","g","h","i","j","k","l","m",
                "n","o","p","q","r","s","t","u","v","w","x","y","z">>
DigitChars == <<"0","1","2","3","4","5","6","7","8","9">>

Range(s) == {s[k] : k \in DOMAIN s}

\* the function f with its values computed once and kept (f itself, as a table)
Tabulated(f) == f @@ << >>

\* str.lower() on one character
LowerOf ==
    Tabulated([c \in Range(UpperChars) |->
                  LowerChars[CHOOSE k \in DOMAIN UpperChars : UpperChars[k] = c]])
LowerChar(c) == IF c \in DOMAIN LowerOf THEN LowerOf[c] ELSE c

\* str.lower()
Lower(s) == [k \in DOMAIN s |-> LowerChar(s[k])]

\* str.rfind(c) + 1: the last position of c in s, 0 when c does not occur
RFind(s, c) ==
    LET at == {k \in DOMAIN s : s[k] = c}
    IN  IF at = {} THEN 0 ELSE CHOOSE k \in at : \A j \in at : j <= k

\* s[:n] and s[n:] with n counted as in Python (characters before position n+1)
Take(s, n) == SubSeq(s, 1, n)
Drop(s, n) == SubSeq(s, n + 1, Len(s))

\* str.endswith(suffix)
EndsWith(s, suffix) ==
    /\ Len(suffix) <= Len(s)
    /\ Drop(s, Len(s) - Len(suffix)) = suffix

\* str.startswith(prefix)
StartsWith(s, prefix) ==
    /\ Len(prefix) <= Len(s)
    /\ Take(s, Len(prefix)) = prefix

(***************************************************************************)
(* File-name helpers.                                                      *)
(***************************************************************************)
ALLOWED_EXTENSIONS ==
    { <<"p","n","g">>, <<"j","p","g">>, <<"j","p","e","g">>,
      <<"t","i","f">>, <<"t","i","f","f">>, <<"p","d","f">> }

\* filename.rsplit('.', 1)[0] and [1] (the whole name and nothing when there is no dot)
RSplitHead(s) == IF RFind(s, ".") = 0 THEN s ELSE Take(s, RFind(s, ".") - 1)
RSplitTail(s) == IF RFind(s, ".") = 0 THEN <<>> ELSE Drop(s, RFind(s, "."))

allowed_file(filename) ==
    /\ "." \in Range(filename)
    /\ Lower(RSplitTail(filename)) \in ALLOWED_EXTENSIONS

\* os.path.splitext: the extension starts at the last dot of the last path
\* component, unless only dots precede it in that component
SplitExtAt(p) ==
    LET sepIndex == RFind(p, "/")
        dotIndex == RFind(p, ".")
    IN  IF /\ dotIndex > sepIndex
           /\ \E k \in (sepIndex + 1)..(dotIndex - 1) : p[k] # "."
        THEN dotIndex - 1
        ELSE Len(p)
SplitExtRoot(p) == Take(p, SplitExtAt(p))
SplitExtExt(p) == Drop(p, SplitExtAt(p))

\* str.lstrip(chars) and str.rstrip(chars): from the first, up to the last,
\* character that is not one of chars
LStrip(s, chars) ==
    LET other == {k \in DOMAIN s : s[k] \notin chars}
    IN  IF other = {} THEN <<>>
        ELSE Drop(s, (CHOOSE k \in other : \A j \in other : k <= j) - 1)

RStrip(s, chars) ==
    LET other == {k \in DOMAIN s : s[k] \notin chars}
    IN  IF other = {} THEN <<>>
        ELSE Take(s, CHOOSE k \in other : \A j \in other : j <= k)

\* str.strip(chars)
Strip(s, chars) == RStrip(LStrip(s, chars), chars)

\* "_".join(s.split()): runs of blanks inside become one "_", outer blanks go
JoinBlanks(s) ==
    LET t == Strip(s, {" "})
        kept == SelectSeq([k \in DOMAIN t |-> k],
                          LAMBDA k : t[k] # " " \/ t[k - 1] # " ")
    IN  [j \in DOMAIN kept |-> IF t[kept[j]] = " " THEN "_" ELSE t[kept[j]]]

FilenameAsciiChars ==
    Range(UpperChars) \cup Range(LowerChars) \cup Range(DigitChars) \cup {"_", ".", "-"}

\* werkzeug.utils.secure_filename on an ASCII name, POSIX
secure_filename(filename) ==
    LET noSep == [k \in DOMAIN filename |-> IF filename[k] = "/" THEN " " ELSE filename[k]]
        joined == JoinBlanks(Strip(noSep, {" "}))
        ascii == SelectSeq(joined, LAMBDA c : c \in FilenameAsciiChars)
    IN  Strip(ascii, {".", "_"})

NoneName == << "<None>" >>   \* Python's None where a name is expected

RESERVED_NAMES ==
    { <<"c","o","n">>, <<"p","r","n">>, <<"a","u","x">>, <<"n","u","l">>,
      <<"c","o","m","1">>, <<"l","p","t","1">>, <<"l","p","t","2">> }

\* validate_and_secure_filename without step 5, the truncation of the base
validate_and_secure_filename_untruncated(filename, unique_id) ==
    IF filename = <<>> \/ Strip(filename, {" "}) = <<>> THEN NoneName
    ELSE
    LET secured_name_part == secure_filename(SplitExtRoot(filename))
        secured_ext_part == secure_filename(SplitExtExt(filename))
        secured_filename == secured_name_part \o secured_ext_part
        final_filename == IF unique_id # <<>>
                          THEN unique_id \o <<"_">> \o secured_filename
                          ELSE secured_filename
    IN  IF secured_name_part = <<>> /\ secured_ext_part \in {<<".">>, <<>>} THEN NoneName
        ELSE IF Lower(SplitExtRoot(final_filename)) \in RESERVED_NAMES THEN NoneName
        ELSE final_filename

\* unique_id = <<>> stands for "no unique id" (None and "" are both falsy)
validate_and_secure_filename(filename, unique_id) ==
    IF filename = <<>> \/ Strip(filename, {" "}) = <<>> THEN NoneName
    ELSE
    LET name_part == SplitExtRoot(filename)
        ext_part == SplitExtExt(filename)
        secured_name_part == secure_filename(name_part)
        secured_ext_part == secure_filename(ext_part)
        added_len == (IF unique_id # <<>> THEN Len(unique_id) + 1 ELSE 0)
                     + Len(secured_ext_part)
        max_base_len == IF MAX_FILENAME_LENGTH - added_len < 1
                        THEN 1 ELSE MAX_FILENAME_LENGTH - added_len
        truncated == IF Len(secured_name_part) > max_base_len
                     THEN Take(secured_name_part, max_base_len)
                     ELSE secured_name_part
        secured_filename == truncated \o secured_ext_part
        final_filename == IF unique_id # <<>>
                          THEN unique_id \o <<"_">> \o secured_filename
                          ELSE secured_filename
        base_name_no_ext == Lower(SplitExtRoot(final_filename))
    IN  IF secured_name_part = <<>> /\ secured_ext_part \in {<<".">>, <<>>} THEN NoneName
        ELSE IF base_name_no_ext \in RESERVED_NAMES THEN NoneName
        ELSE final_filename

(***************************************************************************)
(* Paths (os.path on POSIX) and is_safe_to_serve (security.py).            *)
(***************************************************************************)
UPLOAD_FOLDER == <<"u", "p", "l", "o", "a", "d", "s">>

\* str.split(sep) for a one-character sep: the pieces between the separators
RECURSIVE Split(_, _)
Split(s, sep) ==
    IF sep \notin Range(s) THEN <<s>>
    ELSE LET k == CHOOSE i \in DOMAIN s : s[i] = sep /\ \A j \in 1..(i - 1) : s[j] # sep
         IN  <<Take(s, k - 1)>> \o Split(Drop(s, k), sep)

\* sep.join(parts)
RECURSIVE JoinWith(_, _)
JoinWith(parts, sep) ==
    IF parts = <<>> THEN <<>>
    ELSE IF Len(parts) = 1 THEN parts[1]
    ELSE parts[1] \o <<sep>> \o JoinWith(Tail(parts), sep)

\* os.path.isabs
IsAbs(path) == StartsWith(path, <<"/">>)

\* os.path.join(a, b)
PathJoin(a, b) ==
    IF IsAbs(b) THEN b
    ELSE IF a = <<>> \/ EndsWith(a, <<"/">>) THEN a \o b
    ELSE a \o <<"/">> \o b

\* the loop of os.path.normpath over the components: new_comps
RECURSIVE NormComps(_, _, _)
NormComps(comps, new_comps, initial_slashes) ==
    IF comps = <<>> THEN new_comps
    ELSE LET comp == Head(comps)
             kept ==
                 IF comp \in {<<>>, <<".">>} THEN new_comps
                 ELSE IF \/ comp # <<".", ".">>
                         \/ (initial_slashes = 0 /\ new_comps = <<>>)
                         \/ (new_comps # <<>> /\ new_comps[Len(new_comps)] = <<".", ".">>)
                 THEN Append(new_comps, comp)
                 ELSE IF new_comps # <<>> THEN Take(new_comps, Len(new_comps) - 1)
                 ELSE new_comps
         IN  NormComps(Tail(comps), kept, initial_slashes)

\* os.path.normpath
NormPath(path) ==
    IF path = <<>> THEN <<".">>
    ELSE LET initial_slashes ==
                 IF ~IsAbs(path) THEN 0
                 ELSE IF StartsWith(path, <<"/", "/">>) /\ ~StartsWith(path, <<"/", "/", "/">>)
                 THEN 2 ELSE 1
             joined == JoinWith(NormComps(Split(path, "/"), <<>>, initial_slashes), "/")
             result == [k \in 1..initial_slashes |-> "/"] \o joined
         IN  IF result = <<>> THEN <<".">> ELSE result

\* os.path.abspath in a process whose working directory is cwd
AbsPath(path, cwd) == NormPath(IF IsAbs(path) THEN path ELSE PathJoin(cwd, path))

is_safe_to_serve(filename, cwd) ==
    LET target_path == PathJoin(UPLOAD_FOLDER, filename)
        absolute_path == AbsPath(target_path, cwd)
        upload_abspath == AbsPath(UPLOAD_FOLDER, cwd)
    IN  StartsWith(absolute_path, upload_abspath)

(***************************************************************************)
(* delete_file (utils.py) and the route POST /delete_preview/<filename>.   *)
(* The route is not part of app.py; it is modelled as the specification    *)
(* describes it: 400 for a name that is_safe_to_serve refuses, else 200    *)
(* when delete_file deleted the file and 404 when it did not.              *)
(* A file system is the set of its regular files, each the list of the     *)
(* components of its absolute path; its directories are fixed.             *)
(***************************************************************************)
DIR_ROOT == << >>
DIR_CWD == << <<"s", "r", "v">> >>
DIR_UPLOADS == Append(DIR_CWD, UPLOAD_FOLDER)
DIR_SIBLING == Append(DIR_CWD, UPLOAD_FOLDER \o <<"x">>)
MachineDirs == { DIR_ROOT, DIR_CWD, DIR_UPLOADS, DIR_SIBLING }
MachineFiles == { Append(DIR_UPLOADS, <<"f">>), Append(DIR_SIBLING, <<"f">>),
                  Append(DIR_CWD, <<"f">>) }

NoEntry == << <<"<missing>">> >>   \* where a path leads when it leads nowhere

\* the file or directory that the operating system finds by walking comps from
\* the directory cur: every component but the last must lead to a directory
RECURSIVE Walk(_, _)
Walk(comps, cur) ==
    IF comps = <<>> THEN cur
    ELSE IF cur \notin MachineDirs THEN NoEntry
    ELSE LET comp == Head(comps)
         IN  IF comp \in {<<>>, <<".">>} THEN Walk(Tail(comps), cur)
             ELSE IF comp = <<".", ".">>
             THEN Walk(Tail(comps), IF cur = <<>> THEN cur ELSE Take(cur, Len(cur) - 1))
             ELSE Walk(Tail(comps), Append(cur, comp))

\* what path names in a process whose working directory is DIR_CWD
Lookup(path) == Walk(Split(path, "/"), IF IsAbs(path) THEN DIR_ROOT ELSE DIR_CWD)

\* delete_file with os.remove raising OSError
delete_file_reporting_success(filename, fs, remove_ok) ==
    IF filename = <<>> THEN [value |-> FALSE, fs |-> fs]
    ELSE LET filepath == Lookup(PathJoin(UPLOAD_FOLDER, filename))
         IN  IF filepath \in fs \cup MachineDirs
             THEN IF filepath \in fs /\ remove_ok
                  THEN [value |-> TRUE, fs |-> fs \ {filepath}]
                  ELSE [value |-> TRUE, fs |-> fs]
             ELSE [value |-> FALSE, fs |-> fs]

\* delete_file: whether it deleted the file, and the files afterwards;
\* os.remove raises OSError on a directory and when remove_ok is false
delete_file(filename, fs, remove_ok) ==
    IF filename = <<>> THEN [value |-> FALSE, fs |-> fs]
    ELSE LET filepath == Lookup(PathJoin(UPLOAD_FOLDER, filename))
         IN  IF filepath \in fs \cup MachineDirs
             THEN IF filepath \in fs /\ remove_ok
                  THEN [value |-> TRUE, fs |-> fs \ {filepath}]
                  ELSE [value |-> FALSE, fs |-> fs]
             ELSE [value |-> FALSE, fs |-> fs]

\* POST /delete_preview/<filename>
delete_preview(filename, fs, remove_ok) ==
    IF ~is_safe_to_serve(filename, JoinWith(<<<<>>>> \o DIR_CWD, "/"))
    THEN [code |-> 400, fs |-> fs]
    ELSE LET d == delete_file(filename, fs, remove_ok)
         IN  [code |-> IF d.value THEN 200 ELSE 404, fs |-> d.fs]

(***************************************************************************)
(* The OCR pipeline (perform_ocr).  The outcomes of the library calls it    *)
(* makes are its environment: a record env with                            *)
(*   pages     page count of the document (1 for a plain image)            *)
(*   blank     the engine recognizes no text on any page                   *)
(*   sample    "text" | "empty" | "raise": the low-resolution sample pass  *)
(*   detect    what langdetect.detect does with a non-empty sample         *)
(*   stage, page, exc   the first library call of steps 2 and 3 that       *)
(*             does not succeed ("none": every call succeeds), and the     *)
(*             class of the exception it raises, or NO_RETURN for a        *)
(*             recognition call that never returns (image_to_string is     *)
(*             called without a timeout)                                   *)
(***************************************************************************)

ExcClasses ==
    { "TesseractNotFoundError",   \* pytesseract, an OSError
      "TesseractError_lang",      \* RuntimeError, 'Failed loading language' in its text
      "RuntimeError",             \* any other RuntimeError (TesseractError, fitz errors)
      "UnidentifiedImageError",   \* PIL
      "Exception" }               \* any other Exception (OSError, ValueError, ...)

IsRuntimeError(exc) == exc \in {"TesseractError_lang", "RuntimeError"}

NO_RETURN == "NoReturn"

DetectOutcomes == {"en", "fr", "LangDetectException", "Exception"}

\* the sample pass and the detector: the detector runs on a non-empty sample only
Detections ==
    { [sample |-> "raise", detect |-> "en"], [sample |-> "empty", detect |-> "en"] }
        \cup [sample : {"text"}, detect : DetectOutcomes]

\* the first call that raises: the page matters for the per-page calls only
Failures(max_pages) ==
    { [stage |-> "none", page |-> 1, exc |-> "Exception"] }
        \cup [stage : {"open", "spell"}, page : {1}, exc : ExcClasses]
        \cup [stage : {"raster", "recognize"}, page : 1..max_pages, exc : ExcClasses]
        \cup [stage : {"recognize"}, page : 1..max_pages, exc : {NO_RETURN}]

MakeEnv(pages, blank, d, f) ==
    [ pages |-> pages, blank |-> blank, sample |-> d.sample, detect |-> d.detect,
      stage |-> f.stage, page |-> f.page, exc |-> f.exc ]

\* the environments of a document of the given page count
EnvsOf(pages, max_pages) ==
    { MakeEnv(pages, blank, d, f) :
        blank \in BOOLEAN, d \in Detections, f \in Failures(max_pages) }

\* ext in ('.pdf', '.tif', '.tiff') for ext = os.path.splitext(path)[1].lower()
IsContainerPath(path) ==
    Lower(SplitExtExt(path)) \in
        { <<".","p","d","f">>, <<".","t","i","f">>, <<".","t","i","f","f">> }

\* how a block of code ends: with a value, with an exception of class exc
\* raised while the local variable lang held the value lang, or not at all
Returned(v) == [kind |-> "return", value |-> v]
Raised(exc, lang) == [kind |-> "raise", exc |-> exc, lang |-> lang]
Blocked == [kind |-> "block"]

\* the end of the block in which the failing call of env is made
Fails(env, lang) == IF env.exc = NO_RETURN THEN Blocked ELSE Raised(env.exc, lang)

\* what the engine reads on page k (1-based): three words, one of them
\* misspelled with a known correction, one unknown without correction
NL == "\n"
BANNER_LINE == "======================================================"
PageText(k, env) ==
    IF env.blank THEN <<>> ELSE <<"teh", "page", DigitChars[k + 1], "qzx", NL>>

\* the delimiter put before the text of page i + 1 (i as enumerate counts)
PageBanner(i, page_count) ==
    << NL, BANNER_LINE, NL,
       "---", "PAGE", DigitChars[i + 2], "of", DigitChars[page_count + 1], "---", NL,
       BANNER_LINE, NL, NL >>

\* process_text_for_ocr: never raises, "" on any failure or on an empty container
process_text_for_ocr(doc_path, env) ==
    IF env.sample = "raise" THEN <<>>
    ELSE IF IsContainerPath(doc_path) /\ env.pages = 0 THEN <<>>
    ELSE IF env.sample = "empty" THEN <<>>
    ELSE <<"sample", "text">>

\* step 1 of perform_ocr: the language used, or the exception that leaves the step
DetectStep(image_path, lang, env) ==
    IF lang # "detect" THEN Returned(lang)
    ELSE IF process_text_for_ocr(image_path, env) = <<>> THEN Returned("eng")
    ELSE CASE env.detect = "LangDetectException" -> Returned("eng")
           [] env.detect = "Exception" -> Raised("Exception", lang)
           [] env.detect = "en" -> Returned("eng")
           [] OTHER -> Returned(env.detect)

\* full_text after the pages 1..n of the loop over the document
RECURSIVE FullText(_, _, _)
FullText(n, page_count, env) ==
    IF n = 0 THEN <<>>
    ELSE IF n = 1 THEN <<PageText(1, env)>>
    ELSE FullText(n - 1, page_count, env)
            \o <<PageBanner(n - 1, page_count), PageText(n, env)>>

\* "".join(list of strings)
RECURSIVE JoinAll(_)
JoinAll(parts) == IF parts = <<>> THEN <<>> ELSE Head(parts) \o JoinAll(Tail(parts))

\* step 2 of perform_ocr keeping what was recognized before the failing page
RecognizeStepPartial(image_path, lang, env) ==
    IF IsContainerPath(image_path)
    THEN IF env.stage = "open" THEN Raised(env.exc, lang)
         ELSE IF env.stage \in {"raster", "recognize"} /\ env.page <= env.pages
              THEN Returned(JoinAll(FullText(env.page - 1, env.pages, env)))
         ELSE Returned(JoinAll(FullText(env.pages, env.pages, env)))
    ELSE IF env.stage \in {"open", "recognize"} THEN Fails(env, lang)
         ELSE Returned(PageText(1, env))

\* step 2 of perform_ocr: ocr_result, or the exception of the first call that raises
RecognizeStep(image_path, lang, env) ==
    IF IsContainerPath(image_path)
    THEN IF env.stage = "open" THEN Raised(env.exc, lang)
         ELSE IF env.stage \in {"raster", "recognize"} /\ env.page <= env.pages
              THEN Fails(env, lang)
         ELSE Returned(JoinAll(FullText(env.pages, env.pages, env)))
    ELSE IF env.stage \in {"open", "recognize"} THEN Fails(env, lang)
         ELSE Returned(PageText(1, env))

\* spell.split_words: the word tokens of the text, in order
IsWordToken(t) == t \notin {NL, BANNER_LINE, "---"}
split_words(text) == SelectSeq(text, IsWordToken)

\* spell.unknown and spell.correction on the model's vocabulary
MISSPELLED == {"teh", "qzx"}
Correction(word) == IF word = "teh" THEN "the" ELSE "None"

\* the correction loop of step 3: correction or word
CleanedWords(words) ==
    [k \in DOMAIN words |->
        IF words[k] \in MISSPELLED
        THEN IF Correction(words[k]) # "None" THEN Correction(words[k]) ELSE words[k]
        ELSE words[k]]

\* str.splitlines on a token sequence
RECURSIVE SplitLines(_)
SplitLines(text) ==
    IF text = <<>> THEN <<>>
    ELSE IF NL \notin Range(text) THEN <<text>>
    ELSE LET k == CHOOSE i \in DOMAIN text :
                      text[i] = NL /\ \A j \in 1..(i - 1) : text[j] # NL
         IN  <<Take(text, k - 1)>> \o SplitLines(Drop(text, k))

NoneText == << "<None>" >>   \* Python's None where a text is expected

IsMarkerLine(line) ==
    \/ BANNER_LINE \in Range(line)
    \/ \E k \in 1..(Len(line) - 1) : line[k] = "---" /\ line[k + 1] = "PAGE"

\* reconstruct_text (utils.py): the loop returns the joined words at the first
\* line that is no marker line, and falls off its end (None) when there is none
RECURSIVE ReconstructLoop(_, _)
ReconstructLoop(lines, words_list) ==
    IF lines = <<>> THEN NoneText
    ELSE IF IsMarkerLine(Head(lines)) THEN ReconstructLoop(Tail(lines), words_list)
    ELSE words_list

reconstruct_text(words_list, original_text) ==
    ReconstructLoop(SplitLines(original_text), words_list)

\* step 3 of perform_ocr; app.py joins the words, utils.py calls reconstruct_text
SpellStep(ocr_result, lang, env, variant) ==
    IF env.stage = "spell" THEN Raised(env.exc, lang)
    ELSE LET words == split_words(ocr_result)
         IN  IF variant = "utils"
             THEN Returned(reconstruct_text(CleanedWords(words), ocr_result))
             ELSE Returned(CleanedWords(words))

\* the try block of perform_ocr with the engine check made after the recognition
OcrBodyCheckingLate(image_path, lang, psm, env, tesseract_ok, variant) ==
    LET d == DetectStep(image_path, lang, env)
        r == RecognizeStep(image_path, d.value, env)
        c == SpellStep(r.value, d.value, env, variant)
    IN  IF d.kind # "return" THEN d
        ELSE IF r.kind # "return" THEN r
        ELSE IF ~tesseract_ok THEN Raised("TesseractNotFoundError", d.value)
        ELSE IF c.kind # "return" THEN c
        ELSE Returned([status |-> "success", text |-> c.value])

\* the try block of perform_ocr
OcrBody(image_path, lang, psm, env, tesseract_ok, variant) ==
    IF ~tesseract_ok THEN Raised("TesseractNotFoundError", lang)
    ELSE LET d == DetectStep(image_path, lang, env)
             r == RecognizeStep(image_path, d.value, env)
             c == SpellStep(r.value, d.value, env, variant)
         IN  IF d.kind # "return" THEN d
             ELSE IF r.kind # "return" THEN r
             ELSE IF c.kind # "return" THEN c
             ELSE Returned([status |-> "success", text |-> c.value])

MSG_ENGINE == <<"OCR Engine is not running or Tesseract is not installed correctly.">>
MSG_OPEN == <<"Could not open file. Ensure it is a valid image/PDF file.">>
MsgLang(lang) == <<"Tesseract language pack '", lang, "' is missing.">>
MsgOcr(exc) == <<"An OCR processing error occurred: ", exc>>
MsgUnexpected(exc) == <<"An unexpected error occurred during OCR: ", exc>>

ErrorResult(message) == [status |-> "error", message |-> message]

\* perform_ocr without its last except clause: what no other clause matches
\* leaves the function
OcrHandlersClassified(b) ==
    CASE b.exc = "TesseractNotFoundError" -> Returned(ErrorResult(MSG_ENGINE))
      [] b.exc = "TesseractError_lang" -> Returned(ErrorResult(MsgLang(b.lang)))
      [] b.exc = "RuntimeError" -> Returned(ErrorResult(MsgOcr(b.exc)))
      [] b.exc = "UnidentifiedImageError" -> Returned(ErrorResult(MSG_OPEN))
      [] OTHER -> b

\* the except clauses of perform_ocr, in the order they are tried
OcrHandlers(b) ==
    CASE b.exc = "TesseractNotFoundError" -> Returned(ErrorResult(MSG_ENGINE))
      [] b.exc = "TesseractError_lang" -> Returned(ErrorResult(MsgLang(b.lang)))
      [] b.exc = "RuntimeError" -> Returned(ErrorResult(MsgOcr(b.exc)))
      [] b.exc = "UnidentifiedImageError" -> Returned(ErrorResult(MSG_OPEN))
      [] OTHER -> Returned(ErrorResult(MsgUnexpected(b.exc)))

\* variant: "app" for app.py's perform_ocr, "utils" for utils.py's
perform_ocr(image_path, lang, psm, env, tesseract_ok, variant) ==
    LET b == OcrBody(image_path, lang, psm, env, tesseract_ok, variant)
    IN  IF b.kind = "raise" THEN OcrHandlers(b) ELSE b

(***************************************************************************)
(* State of the service.                                                   *)
(***************************************************************************)
VARIABLES
    TESSERACT_OK,   \* whether the engine was found at start-up
    task_results,   \* the registry: task id -> entry, for the ids present
    files,          \* the upload folder: file name -> modification time
    now,            \* the wall clock, in seconds
    ticks,          \* how often the clock has advanced
    next_id,        \* how many task ids os.urandom has issued
    upc,            \* per task id: how far its /upload request has come
    req,            \* per task id: the locals of its /upload request, handed to the worker
    wpc,            \* per task id: where its worker thread stands
    wresult,        \* per task id: the worker's local result
    wpreview,       \* per task id: the worker's local preview_filename
    ppc,            \* per poller: where its /status request stands
    ptask_id,       \* per poller: the task id it asked for
    ptask,          \* per poller: its local task (the entry it read)
    response,       \* the HTTP response on its way to the client, NoResponse when none is
    delivered,      \* per task id: how many /status responses carried its terminal payload
    ocr_call,       \* the arguments and environment of a direct call of perform_ocr
    ocr_return,     \* how that call ended
    sec_call,       \* the arguments of a direct call of a function of security.py
    sec_return,     \* what that call returned
    spc,            \* per sweeping request: where its cleanup_old_files stands
    slist           \* per sweeping request: the listed names it has yet to examine

service_vars == << TESSERACT_OK, task_results, files, now, ticks, next_id, upc, req,
                   wpc, wresult, wpreview, ppc, ptask_id, ptask, response, delivered >>
ocr_vars == << ocr_call, ocr_return >>
sec_vars == << sec_call, sec_return >>
sweep_vars == << spc, slist >>
vars == << service_vars, ocr_vars, sec_vars, sweep_vars >>

Ids == 1..MaxTasks
Pollers == 1..NumPollers
Sweepers == 1..NumSweepers

\* os.urandom(16).hex(): 32 hex digits, distinct for distinct tasks
TaskIdStr(i) == [k \in 1..TaskIdLen |-> IF k < TaskIdLen THEN "0" ELSE DigitChars[i + 1]]

\* os.urandom(8).hex() in the worker of task i: 16 hex digits
PreviewIdStr(i) == [k \in 1..PreviewIdLen |-> IF k < PreviewIdLen THEN "f" ELSE DigitChars[i + 1]]

\* client-supplied file names
NAME_PNG == <<"a", ".", "p", "n", "g">>
NAME_PDF == <<"d", ".", "P", "D", "F">>
NAME_SUBDIR == <<"x", "/", "y", ".", "p", "n", "g">>
NAME_EXE == <<"r", "e", "p", "o", "r", "t", ".", "e", "x", "e">>
NAME_NOEXT == <<"p", "n", "g">>
UploadNames == {NAME_PNG, NAME_PDF, NAME_SUBDIR, NAME_EXE, NAME_NOEXT, <<>>}
Langs == {"eng", "detect"}
UploadLangs == {"eng"}
WorkerExcClasses == {"RuntimeError"}
Psms == {"3"}
Sizes == {MAX_FILE_SIZE, MAX_FILE_SIZE + 1}

NoTask == [status |-> "None"]        \* what task_results.get returns for a missing id
PendingEntry == [status |-> "pending"]
NoReq == [original_filename |-> <<>>, lang |-> "", psm |-> "", pages |-> 0]
NoResult == [status |-> "None"]
NoCall == [variant |-> "none"]
NoReturn == [kind |-> "none"]
NoResponse == [route |-> "none", code |-> 0, task_id |-> 0, body |-> [status |-> "None"]]

\* f"{task_id}_{original_filename}"
SafeFilename(i, original_filename) == TaskIdStr(i) \o <<"_">> \o original_filename

\* the name under which the upload of task i is stored (filepath, relative to the folder)
Filepath(i) == SafeFilename(i, req[i].original_filename)

ServiceInit ==
    /\ TESSERACT_OK \in BOOLEAN
    /\ task_results = << >>
    /\ files = << >>
    /\ now = 0
    /\ ticks = 0
    /\ next_id = 0
    /\ upc = [i \in Ids |-> "new"]
    /\ req = [i \in Ids |-> NoReq]
    /\ wpc = [i \in Ids |-> "none"]
    /\ wresult = [i \in Ids |-> NoResult]
    /\ wpreview = [i \in Ids |-> <<>>]
    /\ ppc = [p \in Pollers |-> "idle"]
    /\ ptask_id = [p \in Pollers |-> 0]
    /\ ptask = [p \in Pollers |-> NoTask]
    /\ response = NoResponse
    /\ delivered = [i \in Ids |-> 0]

\* no request is in its sweep
NoSweep ==
    /\ spc = [s \in Sweepers |-> "idle"]
    /\ slist = [s \in Sweepers |-> <<>>]

Init ==
    /\ ServiceInit
    /\ ocr_call = NoCall
    /\ ocr_return = NoReturn
    /\ sec_call = NoCall
    /\ sec_return = NoReturn
    /\ NoSweep

\* d[key] = value on a dict, del d[key], and open(path, 'w') on the folder
Put(d, key, value) == [k \in DOMAIN d \cup {key} |-> IF k = key THEN value ELSE d[k]]
Del(d, key) == [k \in DOMAIN d \ {key} |-> d[k]]

(***************************************************************************)
(* The clock and the retention sweep (cleanup_old_files), which            *)
(* before_request runs ahead of every request.                             *)
(***************************************************************************)
Tick(d) ==
    /\ response = NoResponse
    /\ ticks < MaxTicks
    /\ ticks' = ticks + 1
    /\ now' = now + d
    /\ response' = NoResponse
    /\ UNCHANGED << TESSERACT_OK, task_results, files, next_id, upc, req,
                    wpc, wresult, wpreview, ppc, ptask_id, ptask, delivered, ocr_vars, sec_vars, sweep_vars >>

\* (now - file_mod_time) > CLEANUP_AGE_SECONDS
Expired(name) == (now - files[name]) > CLEANUP_AGE_SECONDS

\* cleanup_old_files removing files from the age CLEANUP_AGE_SECONDS on
cleanup_old_files_inclusive(entries, dirs, time, failing) ==
    [name \in {n \in DOMAIN entries :
                  \/ n \in dirs
                  \/ ~((time - entries[n]) >= CLEANUP_AGE_SECONDS)
                  \/ n \in failing} |-> entries[name]]

\* cleanup_old_files leaving the loop at the first OSError of os.remove
cleanup_old_files_aborting(entries, dirs, time, failing) ==
    [name \in {n \in DOMAIN entries :
                  \/ n \in dirs
                  \/ ~((time - entries[n]) > CLEANUP_AGE_SECONDS)
                  \/ failing # {}} |-> entries[name]]

\* cleanup_old_files at the time time on a folder with the entries entries
\* (name -> modification time), of which dirs are directories; failing: the
\* files whose os.remove raises OSError, which is logged and dropped
cleanup_old_files(entries, dirs, time, failing) ==
    [name \in {n \in DOMAIN entries :
                  \/ n \in dirs
                  \/ ~((time - entries[n]) > CLEANUP_AGE_SECONDS)
                  \/ n \in failing} |-> entries[name]]

\* the folder after cleanup_old_files; the service stores no directory in it
Swept(failing) == cleanup_old_files(files, {}, now, failing)

\* the choices of failing
SweepFailures == SUBSET {n \in DOMAIN files : Expired(n)}

\* a request of a route that touches nothing else (GET /)
index(failing) ==
    /\ response = NoResponse
    /\ failing \in SweepFailures
    /\ files' = Swept(failing)
    /\ response' = NoResponse
    /\ UNCHANGED << TESSERACT_OK, task_results, now, ticks, next_id, upc, req,
                    wpc, wresult, wpreview, ppc, ptask_id, ptask, delivered, ocr_vars, sec_vars, sweep_vars >>

\* the response reaches the client: the end of the request that produced it.
\* No other step is interleaved between a response and its delivery.
Respond ==
    /\ response # NoResponse
    /\ response' = NoResponse
    /\ UNCHANGED << TESSERACT_OK, task_results, files, now, ticks, next_id, upc, req,
                    wpc, wresult, wpreview, ppc, ptask_id, ptask, delivered, ocr_vars, sec_vars, sweep_vars >>

(***************************************************************************)
(* POST /upload (upload_file), in two steps: the sweep, validation,        *)
(* file.save and the seeding of the registry under task_lock; then         *)
(* thread.start with the response.                                         *)
(***************************************************************************)
UploadResponse(code, i, status, message) ==
    [ route |-> "upload", code |-> code, task_id |-> i,
      body |-> [status |-> status, message |-> message] ]

\* the checks of upload_file with the size limit taken as exclusive
ValidateCodeExclusive(tesseract_ok, has_file, original_filename, file_size) ==
    IF ~tesseract_ok THEN [code |-> 503, message |-> "Tesseract Not Ready"]
    ELSE IF ~has_file THEN [code |-> 400, message |-> "No file part"]
    ELSE IF original_filename = <<>> THEN [code |-> 400, message |-> "No selected file"]
    ELSE IF ~allowed_file(original_filename)
    THEN [code |-> 400, message |-> "Invalid file type"]
    ELSE IF file_size >= MAX_FILE_SIZE THEN [code |-> 413, message |-> "File too large"]
    ELSE [code |-> 0, message |-> ""]

\* the four checks of upload_file before a task id is generated: the
\* rejection, code 0 when the request passes
ValidateCode(tesseract_ok, has_file, original_filename, file_size) ==
    IF ~tesseract_ok THEN [code |-> 503, message |-> "Tesseract Not Ready"]
    ELSE IF ~has_file THEN [code |-> 400, message |-> "No file part"]
    ELSE IF original_filename = <<>> THEN [code |-> 400, message |-> "No selected file"]
    ELSE IF ~allowed_file(original_filename)
    THEN [code |-> 400, message |-> "Invalid file type"]
    ELSE IF file_size > MAX_FILE_SIZE THEN [code |-> 413, message |-> "File too large"]
    ELSE [code |-> 0, message |-> ""]

\* ValidateCode on the requests of the model, tabulated once
ValidateTable ==
    Tabulated([ t \in BOOLEAN \X BOOLEAN \X UploadNames \X Sizes |->
                  ValidateCode(t[1], t[2], t[3], t[4]) ])

Validate(has_file, original_filename, file_size) ==
    ValidateTable[<< TESSERACT_OK, has_file, original_filename, file_size >>]

\* file.save(filepath) cannot succeed when the name has a path separator: the
\* directory "<task_id>_..." it names does not exist in the upload folder
SaveCanSucceed(safe_filename) == "/" \notin Range(safe_filename)

\* an upload route that saves the file before it validates the request
UploadRejectAfterSave(has_file, original_filename, file_size, failing) ==
    /\ response = NoResponse
    /\ failing \in SweepFailures
    /\ Validate(has_file, original_filename, file_size).code # 0
    /\ files' = Put(Swept(failing), original_filename, now)
    /\ response' = LET v == Validate(has_file, original_filename, file_size)
                   IN  UploadResponse(v.code, 0, "error", v.message)
    /\ UNCHANGED << TESSERACT_OK, task_results, now, ticks, next_id, upc, req,
                    wpc, wresult, wpreview, ppc, ptask_id, ptask, delivered, ocr_vars, sec_vars, sweep_vars >>

UploadReject(has_file, original_filename, file_size, failing) ==
    /\ response = NoResponse
    /\ failing \in SweepFailures
    /\ Validate(has_file, original_filename, file_size).code # 0
    /\ files' = Swept(failing)
    /\ response' = LET v == Validate(has_file, original_filename, file_size)
                   IN  UploadResponse(v.code, 0, "error", v.message)
    /\ UNCHANGED << TESSERACT_OK, task_results, now, ticks, next_id, upc, req,
                    wpc, wresult, wpreview, ppc, ptask_id, ptask, delivered, ocr_vars, sec_vars, sweep_vars >>

\* the tasks whose upload request or worker thread is under way
Alive == {i \in Ids : upc[i] = "start" \/ wpc[i] \in {"run", "store", "remove"}}

\* task id, file.save and, under task_lock, the pending entry; pages is the page
\* count of the uploaded document (1 for a plain image).  An exception of file.save
\* is answered 500 before the registry is touched.
UploadAccept(original_filename, file_size, lang, psm, pages, save_ok, failing) ==
    /\ response = NoResponse
    /\ failing \in SweepFailures
    /\ next_id < MaxTasks
    /\ Cardinality(Alive) < MaxWorkers
    /\ Validate(TRUE, original_filename, file_size).code = 0
    /\ IsContainerPath(original_filename) \/ pages = 1
    /\ LET i == next_id + 1
           safe_filename == SafeFilename(i, original_filename)
       IN  /\ next_id' = i
           /\ IF save_ok /\ SaveCanSucceed(safe_filename)
              THEN /\ files' = Put(Swept(failing), safe_filename, now)
                   /\ req' = [req EXCEPT ![i] =
                                 [original_filename |-> original_filename, lang |-> lang,
                                  psm |-> psm, pages |-> pages]]
                   /\ task_results' = Put(task_results, i, PendingEntry)
                   /\ upc' = [upc EXCEPT ![i] = "start"]
                   /\ response' = NoResponse
              ELSE /\ files' = Swept(failing)
                   /\ response' = UploadResponse(500, 0, "error", "A server processing error occurred")
                   /\ upc' = [upc EXCEPT ![i] = "done"]
                   /\ UNCHANGED << req, task_results >>
    /\ UNCHANGED << TESSERACT_OK, now, ticks, wpc, wresult, wpreview,
                    ppc, ptask_id, ptask, delivered, ocr_vars, sec_vars, sweep_vars >>

\* thread.start() and the 202 response; a thread that cannot be started is a 500
UploadStart(i, start_ok) ==
    /\ response = NoResponse
    /\ upc[i] = "start"
    /\ upc' = [upc EXCEPT ![i] = "done"]
    /\ IF start_ok
       THEN /\ wpc' = [wpc EXCEPT ![i] = "run"]
            /\ response' = UploadResponse(202, i, "processing", "")
            /\ UNCHANGED req
       ELSE /\ response' = UploadResponse(500, 0, "error", "A server processing error occurred")
            /\ req' = [req EXCEPT ![i] = NoReq]
            /\ UNCHANGED wpc
    /\ UNCHANGED << TESSERACT_OK, task_results, files, now, ticks, next_id,
                    wresult, wpreview, ppc, ptask_id, ptask, delivered, ocr_vars, sec_vars, sweep_vars >>

(***************************************************************************)
(* The worker thread of a task (ocr_worker), in three steps: the pipeline  *)
(* and the preview (local to the thread, up to the files they read and     *)
(* write), the terminal write under task_lock, the removal of the upload.  *)
(* A worker whose code lets an exception escape is "crashed", one whose    *)
(* engine call never returns is "blocked".  The locals of a thread that    *)
(* has ended are gone.                                                     *)
(***************************************************************************)
\* What perform_ocr can hand back to a worker, tabulated once: perform_ocr reads
\* its path only to tell a container from a plain image and to open the file, so
\* the table is keyed by that, by the request's language and psm, by the
\* document's page count, by whether the file is still there (a file that is
\* gone cannot be opened) and by the engine flag.
SAMPLE_IMAGE_PATH == <<"i", ".", "p", "n", "g">>
SAMPLE_CONTAINER_PATH == <<"c", ".", "p", "d", "f">>

\* the library outcomes that the workers of the service model meet: every call
\* succeeds, or the engine raises or hangs on the first page; a file that is gone
\* makes the sample pass fail and the open raise (fitz: a RuntimeError, PIL: an
\* OSError)
WorkerFailures ==
    { [stage |-> "none", page |-> 1, exc |-> "Exception"] }
        \cup [stage : {"recognize"}, page : {1}, exc : WorkerExcClasses \cup {NO_RETURN}]

WorkerEnvs(is_container, pages, file_present) ==
    IF file_present
    THEN { MakeEnv(pages, FALSE, [sample |-> "text", detect |-> "en"], f) :
             f \in WorkerFailures }
    ELSE { MakeEnv(pages, FALSE, [sample |-> "raise", detect |-> "en"],
                   [stage |-> "open", page |-> 1,
                    exc |-> IF is_container THEN "RuntimeError" ELSE "Exception"]) }

PipelineReturns ==
    Tabulated(
      [ k \in BOOLEAN \X UploadLangs \X Psms \X (0..MaxUploadPages) \X BOOLEAN \X BOOLEAN |->
          { perform_ocr(IF k[1] THEN SAMPLE_CONTAINER_PATH ELSE SAMPLE_IMAGE_PATH,
                        k[2], k[3], env, k[6], "app") :
              env \in WorkerEnvs(k[1], k[4], k[5]) } ])

\* the returns of perform_ocr(filepath, lang, psm) in the worker of task i
WorkerReturns(i) ==
    PipelineReturns[<< IsContainerPath(Filepath(i)), req[i].lang, req[i].psm,
                       req[i].pages, Filepath(i) \in DOMAIN files, TESSERACT_OK >>]

\* original_filename.lower().endswith(('.pdf', '.tif', '.tiff'))
is_multipage(original_filename) ==
    \E suffix \in { <<".","p","d","f">>, <<".","t","i","f">>, <<".","t","i","f","f">> } :
        EndsWith(Lower(original_filename), suffix)

\* f"{original_filename.rsplit('.', 1)[0]}_{unique_id}.png"
PreviewName(original_filename, unique_id) ==
    RSplitHead(original_filename) \o <<"_">> \o unique_id \o <<".", "p", "n", "g">>

PreviewOutcomes == {"ok", "open", "pixmap", "save"}

\* the try block of the preview: outcome names the library call that raises.
\* Returns the preview name and whether pix.save wrote the file.
PreviewTry(i, outcome) ==
    LET name == PreviewName(req[i].original_filename, PreviewIdStr(i))
    IN  IF outcome = "open" \/ Filepath(i) \notin DOMAIN files
        THEN Raised("RuntimeError", "")
        ELSE IF req[i].pages > 0
        THEN IF outcome \in {"pixmap", "save"}
             THEN Raised("Exception", "")
             ELSE Returned([preview_filename |-> name, saved |-> TRUE])
        ELSE Returned([preview_filename |-> name, saved |-> FALSE])

\* a preview without the except clause: the exception leaves the worker
PreviewHandlerReraising(b, original_filename) == b

\* except Exception: preview_filename = original_filename
PreviewHandler(b, original_filename) ==
    IF b.kind = "raise"
    THEN Returned([preview_filename |-> original_filename, saved |-> FALSE])
    ELSE b

\* lines 225-243 of ocr_worker, given the pipeline's result
Preview(i, result, outcome) ==
    IF result.status = "success" /\ is_multipage(req[i].original_filename)
    THEN PreviewHandler(PreviewTry(i, outcome), req[i].original_filename)
    ELSE Returned([preview_filename |-> req[i].original_filename, saved |-> FALSE])

\* lines 219-243 of ocr_worker, given how perform_ocr ended: result and preview,
\* the exception that escapes, or no end
WorkerBody(i, r, outcome) ==
    IF r.kind # "return" THEN r
    ELSE LET b == Preview(i, r.value, outcome)
         IN  IF b.kind = "raise" THEN b
             ELSE Returned([result |-> r.value, preview |-> b.value])

WorkerRun(i, r, outcome) ==
    /\ response = NoResponse
    /\ wpc[i] = "run"
    /\ r \in WorkerReturns(i)
    /\ LET w == WorkerBody(i, r, outcome)
       IN  IF w.kind = "return"
           THEN /\ wresult' = [wresult EXCEPT ![i] = w.value.result]
                /\ wpreview' = [wpreview EXCEPT ![i] = w.value.preview.preview_filename]
                /\ files' = IF w.value.preview.saved
                            THEN Put(files, w.value.preview.preview_filename, now)
                            ELSE files
                /\ wpc' = [wpc EXCEPT ![i] = "store"]
           ELSE /\ wpc' = [wpc EXCEPT ![i] = IF w.kind = "block" THEN "blocked" ELSE "crashed"]
                /\ UNCHANGED << wresult, wpreview, files >>
    /\ response' = NoResponse
    /\ UNCHANGED << TESSERACT_OK, task_results, now, ticks, next_id, upc, req,
                    ppc, ptask_id, ptask, delivered, ocr_vars, sec_vars, sweep_vars >>

\* an entry that is complete whatever the result
TerminalEntryAlwaysComplete(result, preview_filename) ==
    [ status |-> "complete",
      data |-> result,
      preview_filename |-> preview_filename ]

\* the entry the worker writes
TerminalEntry(result, preview_filename) ==
    [ status |-> IF result.status = "success" THEN "complete" ELSE "failed",
      data |-> result,
      preview_filename |-> preview_filename ]

\* with task_lock: task_results[task_id] = {...}
WorkerStore(i) ==
    /\ response = NoResponse
    /\ wpc[i] = "store"
    /\ task_results' = Put(task_results, i, TerminalEntry(wresult[i], wpreview[i]))
    /\ wpc' = [wpc EXCEPT ![i] = "remove"]
    /\ response' = NoResponse
    /\ UNCHANGED << TESSERACT_OK, files, now, ticks, next_id, upc, req,
                    wresult, wpreview, ppc, ptask_id, ptask, delivered, ocr_vars, sec_vars, sweep_vars >>

\* a worker that records a failed removal of the upload in the registry
WorkerRemoveFlagging(i, remove_ok) ==
    /\ response = NoResponse
    /\ wpc[i] = "remove"
    /\ files' = IF remove_ok /\ Filepath(i) \in DOMAIN files
                THEN Del(files, Filepath(i))
                ELSE files
    /\ task_results' = IF remove_ok THEN task_results
                       ELSE Put(task_results, i, [status |-> "failed"])
    /\ wpc' = [wpc EXCEPT ![i] = "done"]
    /\ wresult' = [wresult EXCEPT ![i] = NoResult]
    /\ wpreview' = [wpreview EXCEPT ![i] = <<>>]
    /\ req' = [req EXCEPT ![i] = NoReq]
    /\ response' = NoResponse
    /\ UNCHANGED << TESSERACT_OK, now, ticks, next_id, upc,
                    ppc, ptask_id, ptask, delivered, ocr_vars, sec_vars, sweep_vars >>

\* os.remove(filepath) in try/except OSError: an OSError is logged and dropped;
\* the thread ends
WorkerRemove(i, remove_ok) ==
    /\ response = NoResponse
    /\ wpc[i] = "remove"
    /\ files' = IF remove_ok /\ Filepath(i) \in DOMAIN files
                THEN Del(files, Filepath(i))
                ELSE files
    /\ wpc' = [wpc EXCEPT ![i] = "done"]
    /\ wresult' = [wresult EXCEPT ![i] = NoResult]
    /\ wpreview' = [wpreview EXCEPT ![i] = <<>>]
    /\ req' = [req EXCEPT ![i] = NoReq]
    /\ response' = NoResponse
    /\ UNCHANGED << TESSERACT_OK, task_results, now, ticks, next_id, upc,
                    ppc, ptask_id, ptask, delivered, ocr_vars, sec_vars, sweep_vars >>

(***************************************************************************)
(* GET /status/<task_id> (get_status), in two steps: the sweep and the     *)
(* read under task_lock; the removal under task_lock with the response.    *)
(* Each poller is one request at a time.                                   *)
(***************************************************************************)
\* task_results.get(task_id)
Get(i) == IF i \in DOMAIN task_results THEN task_results[i] ELSE NoTask

StatusResponse(code, i, body) ==
    [route |-> "status", code |-> code, task_id |-> i, body |-> body]

NotFoundAnswer == [status |-> "error", message |-> "Task ID not found."]
ProcessingAnswer == [status |-> "processing"]
ServerErrorAnswer == [status |-> "error", message |-> "KeyError"]

\* the body of the 200 answer for a terminal task
TerminalAnswer(task) ==
    IF task.status = "failed"
    THEN task
    ELSE [status |-> "success", text |-> task.data.text,
          filename |-> task.preview_filename]

\* with task_lock: task = task_results.get(task_id); then the two early returns
PollRead(p, i, failing) ==
    /\ response = NoResponse
    /\ failing \in SweepFailures
    /\ ppc[p] = "idle"
    /\ files' = Swept(failing)
    /\ LET task == Get(i)
       IN  IF task = NoTask
           THEN /\ response' = StatusResponse(404, i, NotFoundAnswer)
                /\ UNCHANGED << ppc, ptask_id, ptask >>
           ELSE IF task.status = "pending"
           THEN /\ response' = StatusResponse(200, i, ProcessingAnswer)
                /\ UNCHANGED << ppc, ptask_id, ptask >>
           ELSE /\ ppc' = [ppc EXCEPT ![p] = "del"]
                /\ ptask_id' = [ptask_id EXCEPT ![p] = i]
                /\ ptask' = [ptask EXCEPT ![p] = task]
                /\ response' = NoResponse
    /\ UNCHANGED << TESSERACT_OK, task_results, now, ticks, next_id, upc, req,
                    wpc, wresult, wpreview, delivered, ocr_vars, sec_vars, sweep_vars >>

\* get_status that marks the entry as delivered where the code deletes it
PollDeleteMarking(p) ==
    /\ response = NoResponse
    /\ ppc[p] = "del"
    /\ ptask_id[p] \in DOMAIN task_results
    /\ task_results' = Put(task_results, ptask_id[p], [status |-> "delivered"])
    /\ response' = StatusResponse(200, ptask_id[p], TerminalAnswer(ptask[p]))
    /\ delivered' = [delivered EXCEPT ![ptask_id[p]] = @ + 1]
    /\ ppc' = [ppc EXCEPT ![p] = "idle"]
    /\ ptask_id' = [ptask_id EXCEPT ![p] = 0]
    /\ ptask' = [ptask EXCEPT ![p] = NoTask]
    /\ UNCHANGED << TESSERACT_OK, files, now, ticks, next_id, upc, req,
                    wpc, wresult, wpreview, ocr_vars, sec_vars, sweep_vars >>

\* get_status without the removal of the entry
PollDeleteKeeping(p) ==
    /\ response = NoResponse
    /\ ppc[p] = "del"
    /\ response' = StatusResponse(200, ptask_id[p], TerminalAnswer(ptask[p]))
    /\ ppc' = [ppc EXCEPT ![p] = "idle"]
    /\ ptask_id' = [ptask_id EXCEPT ![p] = 0]
    /\ ptask' = [ptask EXCEPT ![p] = NoTask]
    /\ UNCHANGED << TESSERACT_OK, task_results, files, now, ticks, next_id, upc, req,
                    wpc, wresult, wpreview, delivered, ocr_vars, sec_vars, sweep_vars >>

\* with task_lock: del task_results[task_id]; then the 200 answer.  del raises
\* KeyError when the id is gone, which the route does not catch: a 500
PollDelete(p) ==
    /\ response = NoResponse
    /\ ppc[p] = "del"
    /\ LET i == ptask_id[p]
       IN  IF i \in DOMAIN task_results
           THEN /\ task_results' = Del(task_results, i)
                /\ response' = StatusResponse(200, i, TerminalAnswer(ptask[p]))
                /\ delivered' = [delivered EXCEPT ![i] = @ + 1]
           ELSE /\ response' = StatusResponse(500, i, ServerErrorAnswer)
                /\ UNCHANGED << task_results, delivered >>
    /\ ppc' = [ppc EXCEPT ![p] = "idle"]
    /\ ptask_id' = [ptask_id EXCEPT ![p] = 0]
    /\ ptask' = [ptask EXCEPT ![p] = NoTask]
    /\ UNCHANGED << TESSERACT_OK, files, now, ticks, next_id, upc, req,
                    wpc, wresult, wpreview, ocr_vars, sec_vars, sweep_vars >>

(***************************************************************************)
(* Specifications.                                                         *)
(***************************************************************************)
Upload ==
    \/ \E has_file \in BOOLEAN, name \in UploadNames, size \in Sizes,
          failing \in SweepFailures :
           UploadReject(has_file, name, size, failing)
    \/ \E name \in UploadNames, size \in Sizes, lang \in UploadLangs, psm \in Psms,
          pages \in 0..MaxUploadPages, save_ok \in BOOLEAN, failing \in SweepFailures :
           UploadAccept(name, size, lang, psm, pages, save_ok, failing)
    \/ \E i \in Ids, start_ok \in BOOLEAN : UploadStart(i, start_ok)

Worker(i) ==
    \/ /\ wpc[i] = "run"
       /\ \E r \in WorkerReturns(i), outcome \in PreviewOutcomes : WorkerRun(i, r, outcome)
    \/ WorkerStore(i)
    \/ \E remove_ok \in BOOLEAN : WorkerRemove(i, remove_ok)

Poll ==
    \/ \E p \in Pollers, i \in Ids, failing \in SweepFailures : PollRead(p, i, failing)
    \/ \E p \in Pollers : PollDelete(p)

Clock ==
    \/ \E d \in {CLEANUP_AGE_SECONDS + 1} : Tick(d)
    \/ \E failing \in SweepFailures : index(failing)

Next ==
    \/ Respond
    \/ Upload
    \/ \E i \in Ids : Worker(i)
    \/ Poll
    \/ Clock

Spec == Init /\ [][Next]_vars

\* the service with fair scheduling: a worker thread that can take a step again
\* and again eventually takes one, and a response that was produced is delivered
LiveSpec == Spec /\ WF_vars(Respond) /\ \A i \in Ids : SF_vars(Worker(i))

\* the service polled sequentially: a /status request starts only when no other
\* /status request is under way
PollReadAlone(p, i, failing) ==
    /\ \A q \in Pollers : ppc[q] = "idle"
    /\ PollRead(p, i, failing)

SeqPoll ==
    \/ \E p \in Pollers, i \in Ids, failing \in SweepFailures : PollReadAlone(p, i, failing)
    \/ \E p \in Pollers : PollDelete(p)

SeqNext ==
    \/ Respond
    \/ Upload
    \/ \E i \in Ids : Worker(i)
    \/ SeqPoll
    \/ Clock

SeqSpec == Init /\ [][SeqNext]_vars

(***************************************************************************)
(* perform_ocr called directly (as the tests do), on every document,       *)
(* language and environment of the bounds, in both of its copies.          *)
(***************************************************************************)
OcrDocuments ==
    { [image_path |-> SAMPLE_IMAGE_PATH, pages |-> 1] }
        \cup [image_path : {SAMPLE_CONTAINER_PATH}, pages : 0..MaxPages]

OcrCalls ==
    UNION { [ variant : {"app", "utils"}, image_path : {d.image_path}, lang : Langs,
              psm : Psms, env : EnvsOf(d.pages, MaxPages) ] : d \in OcrDocuments }

OcrInit ==
    /\ ServiceInit
    /\ ocr_call \in OcrCalls
    /\ ocr_return = NoReturn
    /\ sec_call = NoCall
    /\ sec_return = NoReturn
    /\ NoSweep

OcrApply ==
    /\ ocr_return = NoReturn
    /\ ocr_return' = perform_ocr(ocr_call.image_path, ocr_call.lang, ocr_call.psm,
                                  ocr_call.env, TESSERACT_OK, ocr_call.variant)
    /\ UNCHANGED << service_vars, ocr_call, sec_vars, sweep_vars >>

OcrNext == OcrApply

OcrSpec == OcrInit /\ [][OcrNext]_vars

(***************************************************************************)
(* get_config (config.py).  The class Config reads the environment when    *)
(* the module is imported (imported), get_config reads it again when it is *)
(* called (environ); NoneName stands for a variable that is not set.       *)
(***************************************************************************)
ENV_TESTING == <<"t","e","s","t","i","n","g">>
ENV_PRODUCTION == <<"p","r","o","d","u","c","t","i","o","n">>
ENV_DEVELOPMENT == <<"d","e","v","e","l","o","p","m","e","n","t">>
TESSERACT_FALLBACK == <<"t","e","s","s","e","r","a","c","t">>
SECRET_FALLBACK ==
    <<"d","e","f","a","u","l","t","_","f","a","l","l","b","a","c","k","_",
      "s","e","c","r","e","t","_","f","o","r","_","l","o","c","a","l","_",
      "t","e","s","t","i","n","g","_","o","n","l","y">>

\* the class attributes of Config that depend on the environment
Config(imported) ==
    [ FLASK_SECRET_KEY |-> IF imported.FLASK_SECRET_KEY = NoneName
                           THEN SECRET_FALLBACK ELSE imported.FLASK_SECRET_KEY,
      TESSERACT_CMD |-> IF imported.TESSERACT_CMD \in {NoneName, <<>>}
                        THEN TESSERACT_FALLBACK ELSE imported.TESSERACT_CMD,
      UPLOAD_FOLDER |-> UPLOAD_FOLDER,
      CLEANUP_AGE_SECONDS |-> CLEANUP_AGE_SECONDS,
      LOG_LEVEL |-> "INFO" ]

DevelopmentConfig(imported) ==
    [ field \in DOMAIN Config(imported) \cup {"class", "DEBUG"} |->
        CASE field = "class" -> "DevelopmentConfig"
          [] field = "DEBUG" -> TRUE
          [] field = "LOG_LEVEL" -> "DEBUG"
          [] OTHER -> Config(imported)[field] ]

TestingConfig(imported) ==
    [ field \in DOMAIN Config(imported) \cup {"class", "DEBUG", "TESTING"} |->
        CASE field = "class" -> "TestingConfig"
          [] field \in {"DEBUG", "TESTING"} -> TRUE
          [] field = "UPLOAD_FOLDER" -> <<"t","e","s","t","_">> \o UPLOAD_FOLDER
          [] field = "CLEANUP_AGE_SECONDS" -> 5
          [] OTHER -> Config(imported)[field] ]

ProductionConfig(imported) ==
    [ field \in DOMAIN Config(imported) \cup {"class", "DEBUG"} |->
        CASE field = "class" -> "ProductionConfig"
          [] field = "DEBUG" -> FALSE
          [] field = "LOG_LEVEL" -> "WARNING"
          [] OTHER -> Config(imported)[field] ]

\* get_config without the check of the secret key
get_config_any_secret(env_name, imported, environ) ==
    LET env == IF env_name \notin {NoneName, <<>>} THEN env_name
               ELSE Lower(IF environ.FLASK_ENV = NoneName
                          THEN ENV_DEVELOPMENT ELSE environ.FLASK_ENV)
    IN  IF env = ENV_TESTING THEN Returned(TestingConfig(imported))
        ELSE IF env = ENV_PRODUCTION
        THEN IF /\ Config(imported).TESSERACT_CMD = TESSERACT_FALLBACK
                /\ environ.TESSERACT_CMD \in {NoneName, <<>>}
             THEN [kind |-> "raise", exc |-> "Exception", message |-> "TESSERACT_CMD"]
             ELSE Returned(ProductionConfig(imported))
        ELSE Returned(DevelopmentConfig(imported))

\* get_config(env_name): the configuration object, or the exception raised
get_config(env_name, imported, environ) ==
    LET env == IF env_name \notin {NoneName, <<>>} THEN env_name
               ELSE Lower(IF environ.FLASK_ENV = NoneName
                          THEN ENV_DEVELOPMENT ELSE environ.FLASK_ENV)
    IN  IF env = ENV_TESTING THEN Returned(TestingConfig(imported))
        ELSE IF env = ENV_PRODUCTION
        THEN IF /\ Config(imported).TESSERACT_CMD = TESSERACT_FALLBACK
                /\ environ.TESSERACT_CMD \in {NoneName, <<>>}
             THEN [kind |-> "raise", exc |-> "Exception", message |-> "TESSERACT_CMD"]
             ELSE IF Config(imported).FLASK_SECRET_KEY = SECRET_FALLBACK
             THEN [kind |-> "raise", exc |-> "Exception", message |-> "FLASK_SECRET_KEY"]
             ELSE Returned(ProductionConfig(imported))
        ELSE Returned(DevelopmentConfig(imported))

(***************************************************************************)
(* The functions of security.py, utils.py and config.py called directly    *)
(* (as the tests do), on the names of the bounds.                          *)
(***************************************************************************)
\* the working directories of the process
Cwds == { <<"/", "s", "r", "v">>, <<"/">> }

\* what the names asked of is_safe_to_serve are made of
ServeComponents ==
    { <<".", ".">>, <<".">>, <<"f">>, UPLOAD_FOLDER, UPLOAD_FOLDER \o <<"x">>,
      <<".", ".", "\\", "f">> }

\* relative and absolute names of up to MaxComponents components
ServeNames ==
    LET lists == UNION { [1..n -> ServeComponents] : n \in 0..MaxComponents }
    IN  { JoinWith(c, "/") : c \in lists } \cup { <<"/">> \o JoinWith(c, "/") : c \in lists }

\* n times the character c
Rep(c, n) == [k \in 1..n |-> c]

\* base names: short ones, ones about as long as the limit leaves room for
\* after a task id, reserved ones, ones that need cleaning
SecureBases ==
    { Rep("a", n) : n \in {1, 2, MaxNameLen} \cup ((MaxNameLen - 38)..(MaxNameLen - 34)) }
        \cup { <<"c","o","n">>, <<"C","O","N">>, <<"c","o">>, <<"l","p","t","1">>,
               <<"M","y"," ","D","o","c","!">>, <<".",".","/","e","t","c","/","p","w">>,
               <<" ">>, <<>> }

SecureExts == { <<>>, <<".","p","n","g">>, <<".","t","x","t">>, <<".","n">>, <<".">> }

SecureNames == { b \o e : b \in SecureBases, e \in SecureExts }

\* unique ids: none, a task id, and ids about as long as the limit
UniqueIds ==
    { <<>>, TaskIdStr(1), Rep("b", 1),
      Rep("b", MAX_FILENAME_LENGTH - 2), Rep("b", MAX_FILENAME_LENGTH + 2) }

\* folders for a direct call of cleanup_old_files at the time SweepTime: entries
\* one second older than the retention age, exactly as old, and younger
SweepNames == {"a", "b", "c"}
SweepTime == CLEANUP_AGE_SECONDS + 2
SweepMtimes == {1, 2, 3}
SweepFolders == UNION { [names -> SweepMtimes] : names \in SUBSET SweepNames }

\* values of the environment variable TESSERACT_CMD
TesseractCmds == {NoneName, <<>>, TESSERACT_FALLBACK, <<"/","b","i","n","/">> \o TESSERACT_FALLBACK}

SecCalls ==
    [ fn : {"is_safe_to_serve"}, filename : ServeNames, cwd : Cwds ]
        \cup [ fn : {"validate_and_secure_filename"}, filename : SecureNames,
               unique_id : UniqueIds ]
        \cup [ fn : {"delete_preview"}, filename : ServeNames \ {<<>>},
               fs : SUBSET MachineFiles, remove_ok : BOOLEAN ]
        \cup [ fn : {"get_config"},
               env_name : {NoneName, <<>>, ENV_PRODUCTION, ENV_TESTING, ENV_DEVELOPMENT,
                           <<"P">> \o Tail(ENV_PRODUCTION), <<"s","t","a","g","e">>},
               imported : [ FLASK_SECRET_KEY : {NoneName, SECRET_FALLBACK, <<"k","e","y">>},
                            TESSERACT_CMD : TesseractCmds ],
               environ : [ FLASK_ENV : {NoneName, ENV_PRODUCTION, <<"P">> \o Tail(ENV_PRODUCTION),
                                        ENV_TESTING},
                           TESSERACT_CMD : TesseractCmds ] ]
        \cup { c \in [ fn : {"cleanup_old_files"}, entries : SweepFolders,
                         dirs : SUBSET SweepNames, failing : SUBSET SweepNames ] :
                  /\ c.dirs \subseteq DOMAIN c.entries
                  /\ c.failing \subseteq DOMAIN c.entries \ c.dirs }

SecInit ==
    /\ ServiceInit
    /\ ocr_call = NoCall
    /\ ocr_return = NoReturn
    /\ sec_call \in SecCalls
    /\ sec_return = NoReturn
    /\ NoSweep

ServeApply ==
    /\ sec_return = NoReturn
    /\ sec_call.fn = "is_safe_to_serve"
    /\ sec_return' = Returned(is_safe_to_serve(sec_call.filename, sec_call.cwd))
    /\ UNCHANGED << service_vars, ocr_vars, sec_call, sweep_vars >>

SecureApply ==
    /\ sec_return = NoReturn
    /\ sec_call.fn = "validate_and_secure_filename"
    /\ sec_return' = Returned(validate_and_secure_filename(sec_call.filename,
                                                            sec_call.unique_id))
    /\ UNCHANGED << service_vars, ocr_vars, sec_call, sweep_vars >>

DeleteApply ==
    /\ sec_return = NoReturn
    /\ sec_call.fn = "delete_preview"
    /\ sec_return' = Returned(delete_preview(sec_call.filename, sec_call.fs,
                                              sec_call.remove_ok))
    /\ UNCHANGED << service_vars, ocr_vars, sec_call, sweep_vars >>

SweepApply ==
    /\ sec_return = NoReturn
    /\ sec_call.fn = "cleanup_old_files"
    /\ sec_return' = Returned(cleanup_old_files(sec_call.entries, sec_call.dirs,
                                                 SweepTime, sec_call.failing))
    /\ UNCHANGED << service_vars, ocr_vars, sec_call, sweep_vars >>

ConfigApply ==
    /\ sec_return = NoReturn
    /\ sec_call.fn = "get_config"
    /\ sec_return' = get_config(sec_call.env_name, sec_call.imported, sec_call.environ)
    /\ UNCHANGED << service_vars, ocr_vars, sec_call, sweep_vars >>

SecNext ==
    \/ ConfigApply
    \/ ServeApply
    \/ SecureApply
    \/ DeleteApply
    \/ SweepApply

SecSpec == SecInit /\ [][SecNext]_vars

(***************************************************************************)
(* cleanup_old_files step by step, in requests whose before_request hooks  *)
(* run at the same time as each other and as the worker of task 1, which   *)
(* stands before the os.remove of its upload.  The folder holds that       *)
(* upload and earlier previews, some of them past the retention age.       *)
(***************************************************************************)
\* the previews of earlier tasks that may lie in the folder
OldPreviews == { PreviewName(NAME_PDF, PreviewIdStr(k)) : k \in 1..2 }

\* os.listdir(UPLOAD_FOLDER): the names in any order
ListOrders(names) ==
    { order \in [1..Cardinality(names) -> names] : Range(order) = names }

SweepInit ==
    /\ TESSERACT_OK = TRUE
    /\ now = CLEANUP_AGE_SECONDS + 1
    /\ ticks = MaxTicks
    /\ next_id = 1
    /\ upc = [i \in Ids |-> IF i = 1 THEN "done" ELSE "new"]
    /\ req = [i \in Ids |-> IF i = 1
                            THEN [original_filename |-> NAME_PNG, lang |-> "eng",
                                  psm |-> "3", pages |-> 1]
                            ELSE NoReq]
    /\ wpc = [i \in Ids |-> IF i = 1 THEN "remove" ELSE "none"]
    /\ wresult = [i \in Ids |-> IF i = 1 THEN [status |-> "success", text |-> << >>] ELSE NoResult]
    /\ wpreview = [i \in Ids |-> IF i = 1 THEN NAME_PNG ELSE <<>>]
    /\ task_results = Put(<< >>, 1, TerminalEntry([status |-> "success", text |-> << >>], NAME_PNG))
    /\ \E previews \in SUBSET OldPreviews :
          files \in [ {SafeFilename(1, NAME_PNG)} \cup previews -> {0, now} ]
    /\ files[SafeFilename(1, NAME_PNG)] = now
    /\ ppc = [p \in Pollers |-> "idle"]
    /\ ptask_id = [p \in Pollers |-> 0]
    /\ ptask = [p \in Pollers |-> NoTask]
    /\ response = NoResponse
    /\ delivered = [i \in Ids |-> 0]
    /\ ocr_call = NoCall
    /\ ocr_return = NoReturn
    /\ sec_call = NoCall
    /\ sec_return = NoReturn
    /\ NoSweep

\* for filename in os.listdir(UPLOAD_FOLDER)
SweepList(s, order) ==
    /\ spc[s] = "idle"
    /\ order \in ListOrders(DOMAIN files)
    /\ slist' = [slist EXCEPT ![s] = order]
    /\ spc' = [spc EXCEPT ![s] = "loop"]
    /\ UNCHANGED << service_vars, ocr_vars, sec_vars >>

\* os.path.isdir(filepath), false for a name that is gone, and
\* os.path.getmtime(filepath), which raises FileNotFoundError for it: nothing
\* catches it, the hook raises and the request is answered 500
SweepStat(s) ==
    /\ spc[s] = "loop"
    /\ slist[s] # <<>>
    /\ LET filename == Head(slist[s])
       IN  IF filename \notin DOMAIN files
           THEN /\ spc' = [spc EXCEPT ![s] = "raised"]
                /\ slist' = [slist EXCEPT ![s] = <<>>]
           ELSE IF Expired(filename)
           THEN /\ spc' = [spc EXCEPT ![s] = "remove"]
                /\ UNCHANGED slist
           ELSE /\ slist' = [slist EXCEPT ![s] = Tail(slist[s])]
                /\ UNCHANGED spc
    /\ UNCHANGED << service_vars, ocr_vars, sec_vars >>

\* os.remove(filepath) in try/except OSError: a file that is gone, or that
\* cannot be removed, is logged and the loop goes on
SweepRemove(s, remove_ok) ==
    /\ spc[s] = "remove"
    /\ files' = IF remove_ok /\ Head(slist[s]) \in DOMAIN files
                THEN Del(files, Head(slist[s]))
                ELSE files
    /\ slist' = [slist EXCEPT ![s] = Tail(slist[s])]
    /\ spc' = [spc EXCEPT ![s] = "loop"]
    /\ UNCHANGED << TESSERACT_OK, task_results, now, ticks, next_id, upc, req,
                    wpc, wresult, wpreview, ppc, ptask_id, ptask, response, delivered,
                    ocr_vars, sec_vars >>

\* the loop is over: the hook returns and the route of the request runs
SweepEnd(s) ==
    /\ spc[s] = "loop"
    /\ slist[s] = <<>>
    /\ spc' = [spc EXCEPT ![s] = "served"]
    /\ UNCHANGED << service_vars, ocr_vars, sec_vars, slist >>

SweepNext ==
    \/ \E s \in Sweepers, order \in ListOrders(DOMAIN files) : SweepList(s, order)
    \/ \E s \in Sweepers : SweepStat(s)
    \/ \E s \in Sweepers, remove_ok \in BOOLEAN : SweepRemove(s, remove_ok)
    \/ \E s \in Sweepers : SweepEnd(s)
    \/ \E remove_ok \in BOOLEAN : WorkerRemove(1, remove_ok)

SweepSpec == SweepInit /\ [][SweepNext]_vars

(***************************************************************************)
(* Properties.                                                             *)
(***************************************************************************)
TerminalStatuses == {"complete", "failed"}

\* the entry of task i is there and terminal
IsTerminal(i) == i \in DOMAIN task_results /\ task_results[i].status \in TerminalStatuses

\* C1: concurrent polls of a task in a terminal state: at most one of them
\* is answered with the terminal payload, every poll is answered 200 or 404,
\* and none ends in a server error.
C1_ConcurrentPolls ==
    /\ \A i \in Ids : delivered[i] <= 1
    /\ response.route = "status" => response.code \in {200, 404}

\* C3: with fair scheduling, a worker that was dispatched eventually writes
\* the terminal entry of its task (it reaches the step after the write).
C3_WorkerTerminates ==
    \A i \in Ids : (wpc[i] = "run") ~> (wpc[i] \in {"remove", "done"})

\* the /status response that the step sends for task i
StatusSent(i) == response' # NoResponse /\ response'.route = "status" /\ response'.task_id = i

\* C2: under sequential polling, once the worker of a task was dispatched its
\* entry stays in the registry until a poll has delivered it and is gone
\* afterwards; a poll that finds the entry pending answers "processing", the
\* poll that finds it terminal answers with the terminal payload and removes
\* it, and a poll that finds no entry answers 404.
C2_Lifecycle ==
    /\ [](\A i \in Ids :
            /\ (wpc[i] # "none" /\ delivered[i] = 0) => i \in DOMAIN task_results
            /\ delivered[i] > 0 => i \notin DOMAIN task_results)
    /\ [][\A i \in Ids : StatusSent(i) =>
            IF i \notin DOMAIN task_results
            THEN response' = StatusResponse(404, i, NotFoundAnswer)
            ELSE IF task_results[i].status = "pending"
            THEN response' = StatusResponse(200, i, ProcessingAnswer)
            ELSE /\ response' = StatusResponse(200, i, TerminalAnswer(task_results[i]))
                 /\ i \notin DOMAIN task_results'
                 /\ delivered'[i] = 1]_vars

\* a poll after the delivery of the terminal payload is answered 404
C2_Witness ==
    \E i \in Ids : delivered[i] = 1 /\ response = StatusResponse(404, i, NotFoundAnswer)

\* C4: the registry is keyed by task id; an entry is created only as the
\* pending seed of a task whose worker has not been started, it changes only
\* once, from pending to complete or failed, in the write of its own worker,
\* and a complete or failed entry is never changed (it can only be removed).
C4_EntryTransitions ==
    /\ [](DOMAIN task_results \subseteq Ids)
    /\ [][\A i \in Ids :
            /\ (i \notin DOMAIN task_results /\ i \in DOMAIN task_results') =>
                  /\ task_results'[i] = PendingEntry
                  /\ upc[i] = "new" /\ wpc[i] = "none" /\ delivered[i] = 0
            /\ (IsTerminal(i) /\ i \in DOMAIN task_results') =>
                  task_results'[i] = task_results[i]
            /\ (i \in DOMAIN task_results /\ i \in DOMAIN task_results'
                   /\ task_results'[i] # task_results[i]) =>
                  /\ task_results[i] = PendingEntry
                  /\ task_results'[i].status \in TerminalStatuses
                  /\ wpc[i] = "store" /\ wpc'[i] = "remove"]_vars

\* a task is seeded while the terminal entry of another task is in the registry
C4_Witness ==
    \E i, j \in Ids : IsTerminal(i) /\ j \in DOMAIN task_results
                         /\ task_results[j] = PendingEntry

\* C5: the worker writes the terminal entry (result and preview name as it
\* computed them) before it touches the stored upload, goes on to the removal
\* after the write whatever the result is, and the removal step deletes the
\* upload or fails, leaving the registry as it is in both cases.
C5_WriteThenDelete ==
    [][\A i \in Ids :
         /\ (wpc[i] = "run" /\ wpc'[i] # "run") =>
               (Filepath(i) \in DOMAIN files => Filepath(i) \in DOMAIN files')
         /\ (wpc[i] = "store" /\ wpc'[i] # "store") =>
               /\ wpc'[i] = "remove"
               /\ task_results'[i] = TerminalEntry(wresult[i], wpreview[i])
               /\ files' = files
         /\ (wpc[i] # "remove" /\ wpc'[i] = "remove") => wpc[i] = "store"
         /\ (wpc[i] = "remove" /\ wpc'[i] # "remove") =>
               /\ wpc'[i] = "done"
               /\ task_results' = task_results
               /\ \/ files' = files
                  \/ Filepath(i) \in DOMAIN files /\ files' = Del(files, Filepath(i))]_vars

\* the worker of a failed task has ended, its entry is in the registry and
\* its upload is gone from the folder
C5_Witness ==
    \E i \in Ids : /\ wpc[i] = "done"
                    /\ i \in DOMAIN task_results
                    /\ task_results[i].status = "failed"
                    /\ \A name \in DOMAIN files : ~StartsWith(name, TaskIdStr(i))

\* C6: an upload answered 400, 413 or 503 names no task, leaves the registry,
\* the task ids issued, the upload requests and the workers as they were and
\* adds no file to the folder; only names with an allowed extension (in any
\* case of letters) are ever stored, and none when the engine is unavailable.
C6_RejectedUploads ==
    /\ [](\A i \in Ids : req[i] # NoReq =>
              TESSERACT_OK /\ Lower(RSplitTail(req[i].original_filename)) \in ALLOWED_EXTENSIONS)
    /\ [][(response' # NoResponse /\ response'.route = "upload"
              /\ response'.code \in {400, 413, 503}) =>
            /\ response'.task_id = 0
            /\ UNCHANGED << task_results, next_id, upc, req, wpc >>
            /\ DOMAIN files' \subseteq DOMAIN files]_vars

\* an upload is rejected for its file type while the registry holds an entry
C6_Witness ==
    /\ response = UploadResponse(400, 0, "error", "Invalid file type")
    /\ task_results # << >>

\* C7: the stored name of every accepted upload is the one that
\* validate_and_secure_filename issues for the client's name with the task id
\* as prefix, has no path separator and is at most MAX_FILENAME_LENGTH long
\* after the prefix.
C7_StoredNameSecured ==
    \A i \in Ids : (req[i] # NoReq /\ Filepath(i) \in DOMAIN files) =>
        /\ Filepath(i) = validate_and_secure_filename(req[i].original_filename, TaskIdStr(i))
        /\ "/" \notin Range(Filepath(i))
        /\ Len(Filepath(i)) <= TaskIdLen + 1 + MAX_FILENAME_LENGTH

\* C8: a worker step that ends the pipeline blocks with the pipeline or goes
\* on to the write with one of the pipeline's results, whatever the preview
\* does, and the write of a successful result makes the entry complete with
\* the pipeline's text.
C8_PreviewBestEffort ==
    [][\A i \in Ids :
         /\ (wpc[i] = "run" /\ wpc'[i] # "run") =>
               \/ wpc'[i] = "blocked" /\ Blocked \in WorkerReturns(i)
               \/ wpc'[i] = "store" /\ Returned(wresult'[i]) \in WorkerReturns(i)
         /\ (wpc[i] = "store" /\ wpc'[i] # "store" /\ wresult[i].status = "success") =>
               /\ task_results'[i].status = "complete"
               /\ task_results'[i].data.text = wresult[i].text]_vars

\* a container document whose preview failed is complete, with the fallback name
C8_Witness ==
    \E i \in Ids : /\ wpc[i] = "remove"
                    /\ is_multipage(req[i].original_filename)
                    /\ IsTerminal(i)
                    /\ task_results[i].status = "complete"
                    /\ task_results[i].preview_filename = req[i].original_filename

\* C9: when the worker synthesized no preview name, the preview name in the
\* terminal entry is the name under which the upload was stored.
C9_PreviewNameIsStorageName ==
    \A i \in Ids :
        ( /\ wpc[i] = "remove"
          /\ IsTerminal(i)
          /\ wpreview[i] # PreviewName(req[i].original_filename, PreviewIdStr(i)) ) =>
        task_results[i].preview_filename = Filepath(i)

\* the exception classes that perform_ocr names in an except clause
ClassifiedExceptions ==
    {"TesseractNotFoundError", "TesseractError_lang", "RuntimeError", "UnidentifiedImageError"}

\* C10: a call of perform_ocr never ends with an exception; what it returns
\* is a success with a text or an error with a message, and an exception of
\* no named class becomes the generic message.
C10_NeverRaises ==
    ocr_return # NoReturn =>
        LET b == OcrBody(ocr_call.image_path, ocr_call.lang, ocr_call.psm, ocr_call.env,
                         TESSERACT_OK, ocr_call.variant)
        IN  /\ ocr_return.kind # "raise"
            /\ ocr_return.kind = "return" =>
                  \/ ocr_return.value.status = "success"
                       /\ DOMAIN ocr_return.value = {"status", "text"}
                  \/ ocr_return.value.status = "error"
                       /\ DOMAIN ocr_return.value = {"status", "message"}
            /\ (b.kind = "raise" /\ b.exc \notin ClassifiedExceptions) =>
                  ocr_return = Returned(ErrorResult(MsgUnexpected(b.exc)))

\* the spell correction raised an exception of no named class and the call
\* returned the generic message
C10_Witness ==
    /\ ocr_call # NoCall
    /\ ocr_call.env.stage = "spell"
    /\ ocr_call.env.exc = "Exception"
    /\ ocr_return = Returned(ErrorResult(MsgUnexpected("Exception")))

\* C11: with the engine unavailable, every call of perform_ocr returns the
\* engine-unavailable error, for every path, language, psm and behaviour of
\* the libraries: none of them is called (a call that would raise or never
\* return makes no difference).
C11_EngineUnavailable ==
    (ocr_return # NoReturn /\ ~TESSERACT_OK) =>
        ocr_return = Returned(ErrorResult(MSG_ENGINE))

\* language detection was asked for and the recognition would never have
\* returned, and the call returned the engine-unavailable error
C11_Witness ==
    /\ ~TESSERACT_OK
    /\ ocr_call # NoCall
    /\ ocr_call.lang = "detect"
    /\ ocr_call.env.stage = "recognize"
    /\ ocr_call.env.exc = NO_RETURN
    /\ ocr_return = Returned(ErrorResult(MSG_ENGINE))

\* the lines of the delimiter that announces page k + 1 of n
BannerLines(k, n) ==
    << BANNER_LINE, NL,
       "---", "PAGE", DigitChars[k + 2], "of", DigitChars[n + 1], "---", NL,
       BANNER_LINE >>

\* where pattern stands in text
Occurrences(text, pattern) ==
    { p \in 1..(Len(text) - Len(pattern) + 1) :
        SubSeq(text, p, p + Len(pattern) - 1) = pattern }

\* C12: the text that perform_ocr returns for a container document of n >= 1
\* recognized pages holds exactly n - 1 page delimiters (two "=" lines each),
\* the k-th reading "--- PAGE k+1 of n ---" between its "=" lines, in page order.
C12_PageBanners ==
    ( /\ ocr_return # NoReturn
      /\ ocr_return.kind = "return"
      /\ ocr_return.value.status = "success"
      /\ IsContainerPath(ocr_call.image_path)
      /\ ocr_call.env.pages >= 1 ) =>
        LET text == ocr_return.value.text
            n == ocr_call.env.pages
        IN  /\ Cardinality({p \in DOMAIN text : text[p] = BANNER_LINE}) = 2 * (n - 1)
            /\ \A k \in 1..(n - 1) : Occurrences(text, BannerLines(k, n)) # {}
            /\ \A k \in 1..(n - 2) :
                 \A p \in Occurrences(text, BannerLines(k, n)),
                    q \in Occurrences(text, BannerLines(k + 1, n)) : p < q

\* the call of perform_ocr meets an exception of the rasterization or of the
\* recognition of one of the document's pages
PageFails ==
    /\ ocr_call # NoCall
    /\ TESSERACT_OK
    /\ ocr_call.env.exc \in ExcClasses
    /\ IF IsContainerPath(ocr_call.image_path)
       THEN /\ ocr_call.env.stage \in {"raster", "recognize"}
            /\ ocr_call.env.page <= ocr_call.env.pages
       ELSE ocr_call.env.stage = "recognize"

\* C13: when the rasterization or the recognition of a page raises, perform_ocr
\* returns an error with a message that holds nothing of the text of the
\* document's pages, and the entry a worker makes of it is failed.
C13_NoPartialSuccess ==
    (ocr_return # NoReturn /\ PageFails) =>
        /\ ocr_return.kind = "return"
        /\ ocr_return.value.status = "error"
        /\ DOMAIN ocr_return.value = {"status", "message"}
        /\ \A k \in 1..ocr_call.env.pages :
             Range(ocr_return.value.message) \cap Range(PageText(k, ocr_call.env)) = {}
        /\ TerminalEntry(ocr_return.value, <<>>).status = "failed"

\* the recognition of the second page of two raised and the call returned the
\* error, without the first page's text
C13_Witness ==
    /\ PageFails
    /\ ocr_call.env.pages = 2
    /\ ocr_call.env.page = 2
    /\ ocr_call.env.stage = "recognize"
    /\ ~ocr_call.env.blank
    /\ ocr_return = Returned(ErrorResult(MsgOcr("RuntimeError")))

\* C14: with lang = 'detect' and every library call of the later steps
\* succeeding, perform_ocr returns a success whatever the sample pass and the
\* detector do: no failure of the detection ends the call with an error.
C14_DetectionNeverAborts ==
    ( /\ ocr_return # NoReturn
      /\ TESSERACT_OK
      /\ ocr_call.lang = "detect"
      /\ ocr_call.env.stage = "none" ) =>
        /\ ocr_return.kind = "return"
        /\ ocr_return.value.status = "success"

\* C15: for a container document of zero pages perform_ocr returns an error,
\* never a success.
C15_EmptyDocumentFails ==
    ( /\ ocr_return # NoReturn
      /\ ocr_return.kind = "return"
      /\ IsContainerPath(ocr_call.image_path)
      /\ ocr_call.env.pages = 0 ) =>
        ocr_return.value.status = "error"

\* C16: every call of perform_ocr ends: when the recognition of a page does not
\* return by itself, the call still returns, with an error result.
C16_RecognitionCutOff ==
    ( /\ ocr_return # NoReturn
      /\ TESSERACT_OK
      /\ ocr_call.env.exc = NO_RETURN ) =>
        /\ ocr_return.kind = "return"
        /\ (ocr_call.env.page <= ocr_call.env.pages) => ocr_return.value.status = "error"

\* C17: for a request with a file part and an allowed name, and the engine
\* available, the checks of /upload answer 413 exactly when the size is above
\* MAX_FILE_SIZE and let a file of exactly MAX_FILE_SIZE pass; a 413 response
\* is sent only for such a request, and the task id of a 202 response has a
\* pending entry in the registry.
C17_SizeLimit ==
    /\ [](\A name \in UploadNames, size \in Sizes : allowed_file(name) =>
             /\ Validate(TRUE, name, size).code =
                   IF TESSERACT_OK THEN (IF size > MAX_FILE_SIZE THEN 413 ELSE 0) ELSE 503
             /\ (TESSERACT_OK /\ size = MAX_FILE_SIZE) =>
                   Validate(TRUE, name, size).code = 0)
    /\ [][(response' # NoResponse /\ response'.route = "upload") =>
            /\ response'.code = 413 =>
                 /\ TESSERACT_OK
                 /\ \E name \in UploadNames, size \in Sizes, failing \in SweepFailures :
                       /\ allowed_file(name)
                       /\ size > MAX_FILE_SIZE
                       /\ UploadReject(TRUE, name, size, failing)
            /\ response'.code = 202 =>
                 /\ response'.task_id \in DOMAIN task_results'
                 /\ task_results'[response'.task_id] = PendingEntry
                 /\ \E i \in Ids, name \in UploadNames :
                       /\ response'.task_id = i
                       /\ req[i].original_filename = name
                       /\ Validate(TRUE, name, MAX_FILE_SIZE).code = 0]_vars

\* a file of exactly MAX_FILE_SIZE was accepted: 202 with the id of a pending task
C17_Witness ==
    \E i \in Ids :
        /\ response = UploadResponse(202, i, "processing", "")
        /\ i \in DOMAIN task_results
        /\ task_results[i] = PendingEntry
        /\ MAX_FILE_SIZE \in Sizes

\* path is the directory base or lies below it
IsWithin(path, base) == path = base \/ StartsWith(path, base \o <<"/">>)

\* C18: is_safe_to_serve returns false for every name whose resolved path is
\* neither the upload folder nor below it, and true for a plain file name.
C18_ServeOnlyWithinFolder ==
    (sec_return # NoReturn /\ sec_call.fn = "is_safe_to_serve") =>
        LET resolved == AbsPath(PathJoin(UPLOAD_FOLDER, sec_call.filename), sec_call.cwd)
            folder == AbsPath(UPLOAD_FOLDER, sec_call.cwd)
        IN  /\ ~IsWithin(resolved, folder) => sec_return.value = FALSE
            /\ sec_call.filename = <<"f">> => sec_return.value = TRUE

\* the larger of two numbers
Max(a, b) == IF a >= b THEN a ELSE b

\* C19: for a non-empty name and a non-empty unique id, a name returned by
\* validate_and_secure_filename starts with the id and "_", is at most
\* MAX_FILENAME_LENGTH + len(id) + 1 + len(sanitized extension) long, and is
\* longer than MAX_FILENAME_LENGTH only when id, "_" and extension leave no
\* room for the base, and then by the one character kept for the base.
C19_SecureNameLength ==
    ( /\ sec_return # NoReturn
      /\ sec_call.fn = "validate_and_secure_filename"
      /\ sec_call.filename # <<>>
      /\ sec_call.unique_id # <<>>
      /\ sec_return.value # NoneName ) =>
        LET id == sec_call.unique_id
            ext == secure_filename(SplitExtExt(sec_call.filename))
            name == sec_return.value
        IN  /\ StartsWith(name, id \o <<"_">>)
            /\ Len(name) <= MAX_FILENAME_LENGTH + Len(id) + 1 + Len(ext)
            /\ Len(name) <= Max(MAX_FILENAME_LENGTH, Len(id) + 1 + 1 + Len(ext))

\* a base too long for the limit was cut: the name returned for a task id is
\* exactly MAX_FILENAME_LENGTH long
C19_Witness ==
    /\ sec_call # NoCall
    /\ sec_call.fn = "validate_and_secure_filename"
    /\ sec_call.unique_id = TaskIdStr(1)
    /\ sec_return # NoReturn
    /\ sec_return.value # NoneName
    /\ Len(sec_call.filename) > MAX_FILENAME_LENGTH - TaskIdLen - 1
    /\ Len(sec_return.value) = MAX_FILENAME_LENGTH

\* C20: validate_and_secure_filename returns None for every name whose
\* sanitized base is, in any case of letters, a reserved device name, with
\* any extension and with or without a unique id, and returns a name for
\* every other name whose sanitized base is not empty.
C20_ReservedNamesRejected ==
    ( /\ sec_return # NoReturn
      /\ sec_call.fn = "validate_and_secure_filename"
      /\ Strip(sec_call.filename, {" "}) # <<>> ) =>
        LET base == secure_filename(SplitExtRoot(sec_call.filename))
        IN  /\ Lower(base) \in RESERVED_NAMES => sec_return.value = NoneName
            /\ (base # <<>> /\ Lower(base) \notin RESERVED_NAMES) =>
                  sec_return.value # NoneName

\* s holds two dots in a row
HasDotDot(s) == \E k \in 1..(Len(s) - 1) : s[k] = "." /\ s[k + 1] = "."

\* C21: for a name of base B and extension "." E and a unique id U, the name
\* that validate_and_secure_filename returns is U, "_", the first
\* max(1, MAX_FILENAME_LENGTH - len(U) - 1 - len("." E)) characters of the
\* sanitized B, and "." E unchanged; it holds no "/" and no "..".
C21_ExtensionKept ==
    ( /\ sec_return # NoReturn
      /\ sec_call.fn = "validate_and_secure_filename"
      /\ sec_call.unique_id # <<>>
      /\ SplitExtExt(sec_call.filename) \in SecureExts \ {<<>>, <<".">>}
      /\ sec_return.value # NoneName ) =>
        LET U == sec_call.unique_id
            B == secure_filename(SplitExtRoot(sec_call.filename))
            dotE == SplitExtExt(sec_call.filename)
            room == Max(1, MAX_FILENAME_LENGTH - Len(U) - 1 - Len(dotE))
        IN  /\ sec_return.value = U \o <<"_">> \o Take(B, IF Len(B) > room THEN room ELSE Len(B)) \o dotE
            /\ "/" \notin Range(sec_return.value)
            /\ ~HasDotDot(sec_return.value)

\* the name is one that is_safe_to_serve accepts
SafeName(filename) == is_safe_to_serve(filename, JoinWith(<<<<>>>> \o DIR_CWD, "/"))

SweepAge(name) == SweepTime - sec_call.entries[name]

\* C23: after the sweep every regular file that was older than the retention
\* age and whose deletion succeeded is gone, and every file of at most the
\* retention age and every sub-directory is still present.
C23_SweepRemovesExpired ==
    (sec_return # NoReturn /\ sec_call.fn = "cleanup_old_files") =>
        \A name \in DOMAIN sec_call.entries :
            /\ ( /\ name \notin sec_call.dirs
                 /\ SweepAge(name) > CLEANUP_AGE_SECONDS
                 /\ name \notin sec_call.failing ) =>
                   name \notin DOMAIN sec_return.value
            /\ (SweepAge(name) <= CLEANUP_AGE_SECONDS \/ name \in sec_call.dirs) =>
                   /\ name \in DOMAIN sec_return.value
                   /\ sec_return.value[name] = sec_call.entries[name]

\* an expired file is gone, a file of exactly the retention age and an expired
\* sub-directory are still there
C23_Witness ==
    /\ sec_call # NoCall
    /\ sec_call.fn = "cleanup_old_files"
    /\ sec_call.entries = [name \in SweepNames |->
                              IF name = "b" THEN SweepTime - CLEANUP_AGE_SECONDS ELSE 1]
    /\ sec_call.dirs = {"c"}
    /\ sec_call.failing = {}
    /\ sec_return # NoReturn
    /\ DOMAIN sec_return.value = {"b", "c"}

\* C24: a deletion failure on one expired file does not abort the sweep: every
\* other expired file is deleted and the sweep returns normally.
C24_SweepSurvivesFailure ==
    ( /\ sec_return # NoReturn
      /\ sec_call.fn = "cleanup_old_files"
      /\ \E name \in sec_call.failing : SweepAge(name) > CLEANUP_AGE_SECONDS ) =>
        /\ sec_return.kind = "return"
        /\ \A other \in DOMAIN sec_call.entries \ (sec_call.dirs \cup sec_call.failing) :
               SweepAge(other) > CLEANUP_AGE_SECONDS => other \notin DOMAIN sec_return.value

\* the removal of one expired file failed and two other expired files are gone
C24_Witness ==
    /\ sec_call # NoCall
    /\ sec_call.fn = "cleanup_old_files"
    /\ sec_call.entries = [name \in SweepNames |-> 1]
    /\ sec_call.dirs = {}
    /\ sec_call.failing = {"b"}
    /\ sec_return # NoReturn
    /\ DOMAIN sec_return.value = {"b"}

\* C25: no two tasks share an upload path or a preview path, and no task's
\* preview path is the upload path of any task (task ids and preview ids are
\* distinct by construction of TaskIdStr and PreviewIdStr).
C25_PathsDistinct ==
    \A i \in Ids : \A j \in Ids \ {i} :
        /\ (req[i] # NoReq /\ req[j] # NoReq) => Filepath(i) # Filepath(j)
        /\ (IsTerminal(i) /\ IsTerminal(j)) =>
               task_results[i].preview_filename # task_results[j].preview_filename
        /\ (IsTerminal(i) /\ req[j] # NoReq) =>
               task_results[i].preview_filename # Filepath(j)

\* C26: every registry entry is well-formed: a pending entry has no result;
\* an entry is complete exactly when its result is a success with a text and
\* failed exactly when its result is an error with a message; every terminal
\* entry carries a preview name.
C26_EntriesWellFormed ==
    \A i \in DOMAIN task_results :
        LET entry == task_results[i]
        IN  IF entry.status = "pending"
            THEN DOMAIN entry = {"status"}
            ELSE /\ entry.status \in TerminalStatuses
                 /\ DOMAIN entry = {"status", "data", "preview_filename"}
                 /\ entry.preview_filename = req[i].original_filename
                        \/ entry.preview_filename
                               = PreviewName(req[i].original_filename, PreviewIdStr(i))
                        \/ wpc[i] = "done"
                 /\ entry.preview_filename # <<>>
                 /\ entry.status = "complete" <=>
                        (entry.data.status = "success" /\ DOMAIN entry.data = {"status", "text"})
                 /\ entry.status = "failed" <=>
                        (entry.data.status = "error" /\ DOMAIN entry.data = {"status", "message"})

\* the registry holds a failed entry and a complete entry at once
C26_Witness ==
    /\ DOMAIN task_results = Ids
    /\ task_results[1].status = "failed"
    /\ task_results[2].status = "complete"

\* C27: get_config('production') returns a ProductionConfig (DEBUG false,
\* LOG_LEVEL WARNING) only when the secret key is not the fallback and
\* TESSERACT_CMD was given in the environment, and raises when either is not
\* so; 'testing' gives the testing configuration and every other name the
\* development configuration.
C27_ProductionConfigGuarded ==
    ( /\ sec_return # NoReturn
      /\ sec_call.fn = "get_config"
      /\ sec_call.env_name \notin {NoneName, <<>>} ) =>
        LET secret_set == sec_call.imported.FLASK_SECRET_KEY \notin {NoneName, SECRET_FALLBACK}
            cmd_given == \/ sec_call.imported.TESSERACT_CMD \notin {NoneName, <<>>}
                         \/ sec_call.environ.TESSERACT_CMD \notin {NoneName, <<>>}
        IN  IF sec_call.env_name = ENV_PRODUCTION
            THEN /\ sec_return.kind = "return" =>
                       /\ secret_set /\ cmd_given
                       /\ sec_return.value.class = "ProductionConfig"
                       /\ ~sec_return.value.DEBUG
                       /\ sec_return.value.LOG_LEVEL = "WARNING"
                 /\ ~(secret_set /\ cmd_given) => sec_return.kind = "raise"
            ELSE /\ sec_return.kind = "return"
                 /\ sec_return.value.class =
                        IF sec_call.env_name = ENV_TESTING
                        THEN "TestingConfig" ELSE "DevelopmentConfig"

\* get_config('production') raised for the fallback secret although
\* TESSERACT_CMD was set
C27_Witness ==
    /\ sec_call # NoCall
    /\ sec_call.fn = "get_config"
    /\ sec_call.env_name = ENV_PRODUCTION
    /\ sec_call.imported.FLASK_SECRET_KEY = NoneName
    /\ sec_call.environ.TESSERACT_CMD \notin {NoneName, <<>>}
    /\ sec_return # NoReturn
    /\ sec_return.kind = "raise"
    /\ sec_return.message = "FLASK_SECRET_KEY"

\* C28: an entry of the registry is removed only by a poll for its own id
\* that has read it in a terminal state; every other step leaves every entry
\* as it is, but for the worker of a pending task writing its terminal state.
C28_RemovedOnlyByOwnPoll ==
    [][\A i \in DOMAIN task_results :
          \/ i \in DOMAIN task_results' /\ task_results'[i] = task_results[i]
          \/ /\ i \in DOMAIN task_results'
             /\ task_results[i].status = "pending"
             /\ wpc[i] = "store" /\ wpc'[i] = "remove"
          \/ /\ i \notin DOMAIN task_results'
             /\ IsTerminal(i)
             /\ \E p \in Pollers : /\ ppc[p] = "del" /\ ppc'[p] = "idle"
                                   /\ ptask_id[p] = i
                                   /\ ptask[p] = task_results[i]]_vars

\* the first task's entry was removed by its poll; the second task's terminal
\* entry is still there after its worker's cleanup and a sweep of expired files
C28_Witness ==
    /\ delivered[1] = 1
    /\ 1 \notin DOMAIN task_results
    /\ IsTerminal(2)
    /\ wpc[2] = "done"
    /\ ticks = MaxTicks
    /\ files = << >>

\* C29: the filename that a poll delivers with a success names a file that
\* was in the upload folder when the worker wrote the terminal state, and the
\* task's own worker does not delete that file afterwards.
C29_DeliveredFileExists ==
    [][\A i \in Ids :
          /\ ( /\ wpc[i] = "store" /\ wpc'[i] = "remove"
               /\ task_results'[i].status = "complete" ) =>
                 task_results'[i].preview_filename \in DOMAIN files
          /\ ( /\ wpc[i] = "remove" /\ wpc'[i] = "done"
               /\ wresult[i].status = "success"
               /\ wpreview[i] \in DOMAIN files ) =>
                 wpreview[i] \in DOMAIN files']_vars

\* C30: every pending entry has a worker launched for it or its upload request
\* still under way; an upload request that ended without a worker (a 500)
\* has left no entry and no stored file of its task id.
C30_PendingHasWorker ==
    \A i \in Ids :
        /\ (i \in DOMAIN task_results /\ task_results[i].status = "pending") =>
               (upc[i] = "start" \/ wpc[i] # "none")
        /\ (upc[i] = "done" /\ wpc[i] = "none") =>
               /\ i \notin DOMAIN task_results
               /\ \A name \in DOMAIN files : ~StartsWith(name, TaskIdStr(i))

\* C31: a sweep during which a worker or another sweep deletes a file that
\* the sweep has listed does not raise: no request's hook ends with an
\* exception.
C31_SweepSurvivesDeletion ==
    \A s \in Sweepers : spc[s] # "raised"

====
